---- MODULE Spec2Model ----
(***************************************************************************)
(* Model of the falling-block game engine of inner-mainframe:              *)
(* packages/game-logic (logic.ts, board.ts), the shape table, the          *)
(* xorshift32 generator, the 7-bag randomizer and the kick resolver        *)
(* (src/logic/srs.ts).                                                     *)
(*                                                                         *)
(* Variables.  state is the GameState and ev the history of the last call  *)
(* of step; rng holds two RNG instances and call the last call of a        *)
(* library function made outside a game.  A specification that runs a game *)
(* leaves rng and call at NoRng and NoCall (SpecBag alone keeps in call    *)
(* the log of the bags appended and of the types spawned); one that        *)
(* exercises the generator or a library function has no game               *)
(* (state = NoGame).                                                       *)
(*                                                                         *)
(* Numbers.  32-bit words are pairs <<hi, lo>> of 16-bit halves.  The      *)
(* gravity accumulator fallAccum is kept in sixteenths of a cell           *)
(* (FallUnit): every elapsed time the model feeds to step is a multiple of *)
(* 125 ms, for which g * dtMs / 1000 is a multiple of 1/16 and the         *)
(* double-precision arithmetic of the source is exact.                     *)
(***************************************************************************)
EXTENDS Integers, Sequences, FiniteSets, TLC

VARIABLES state, ev, rng, call

vars == <<state, ev, rng, call>>

NoGame == "none"

NoRng == "none"

NoCall == [fn |-> "none"]

----------------------------------------------------------------------------
(* Shape table                                                             *)

ALL == <<"I", "O", "T", "J", "L", "S", "Z">>

SHAPES ==
  [ I |-> << <<0, 0>>, <<1, 0>>, <<2, 0>>, <<3, 0>> >>,
    O |-> << <<0, 0>>, <<1, 0>>, <<0, 1>>, <<1, 1>> >>,
    T |-> << <<0, 0>>, <<1, 0>>, <<2, 0>>, <<1, 1>> >>,
    L |-> << <<0, 0>>, <<0, 1>>, <<0, 2>>, <<1, 2>> >>,
    J |-> << <<1, 0>>, <<1, 1>>, <<1, 2>>, <<0, 2>> >>,
    S |-> << <<1, 0>>, <<2, 0>>, <<0, 1>>, <<1, 1>> >>,
    Z |-> << <<0, 0>>, <<1, 0>>, <<1, 1>>, <<2, 1>> >> ]

\* the remainder a % n of the source language, with the sign of a
JsRem(a, n) == IF a >= 0 THEN a % n ELSE -((-a) % n)

\* the step count reduced by one remainder only
Mod4_noWrap(r) == JsRem(r, 4)

\* ((r % 4) + 4) % 4
Mod4(r) == JsRem(JsRem(r, 4) + 4, 4)

rotateCells(cells, r) ==
  LET n == Mod4(r)
  IN [i \in 1..Len(cells) |->
        LET x == cells[i][1]
            y == cells[i][2]
        IN CASE n = 1 -> <<-y, x>>
             [] n = 2 -> <<-x, -y>>
             [] n = 3 -> <<y, -x>>
             [] OTHER -> <<x, y>>]

MinOf(S) == CHOOSE m \in S : \A k \in S : m <= k

MaxOf(S) == CHOOSE m \in S : \A k \in S : m >= k

normalize(cells) ==
  LET minX == MinOf({cells[i][1] : i \in 1..Len(cells)})
      minY == MinOf({cells[i][2] : i \in 1..Len(cells)})
  IN [i \in 1..Len(cells) |-> <<cells[i][1] - minX, cells[i][2] - minY>>]

Types == {"I", "O", "T", "J", "L", "S", "Z"}

\* normalize(rotateCells(SHAPES[type], rot)) for every type and rotation index
CellTable ==
  [t \in Types |-> [r \in 0..3 |-> normalize(rotateCells(SHAPES[t], r))]]

\* normalize(rotateCells(SHAPES[type], rot)), read from the table for the
\* rotation indices 0..3
shapeCells(type, rot) ==
  IF rot \in 0..3 THEN CellTable[type][rot]
  ELSE normalize(rotateCells(SHAPES[type], rot))

----------------------------------------------------------------------------
(* Deterministic PRNG (xorshift32) on words <<hi, lo>>                      *)

Half == 65536

RECURSIVE Xor16(_, _)
Xor16(a, b) ==
  IF a = 0 THEN b
  ELSE IF b = 0 THEN a
  ELSE ((a + b) % 2) + 2 * Xor16(a \div 2, b \div 2)

XorW(a, b) == <<Xor16(a[1], b[1]), Xor16(a[2], b[2])>>

Shl13(w) == <<(w[1] % 8) * 8192 + (w[2] \div 8), (w[2] % 8) * 8192>>

Shr17(w) == <<0, w[1] \div 2>>

Shl5(w) == <<(w[1] % 2048) * 32 + (w[2] \div 2048), (w[2] % 2048) * 32>>

Golden == <<40503, 31161>>

Zero32 == <<0, 0>>

\* the constructor keeping a seed of 0 as it is
RNGInit_noRemap(seed) == seed

RNGInit(seed) == IF seed = Zero32 THEN Golden ELSE seed

RNGNext(w) ==
  LET a == XorW(w, Shl13(w))
      b == XorW(a, Shr17(a))
  IN XorW(b, Shl5(b))

\* floor((u / 0xffffffff) * n) for the word u and 1 <= n <= 7
ScaleIndex(u, n) ==
  LET a == u[2] * n
      b == u[1] * n + (a \div Half)
      q == b \div Half
      rhi == b % Half
      rlo == a % Half
  IN IF rhi = Half - 1 /\ rlo >= Half - 1 - q THEN q + 1 ELSE q

----------------------------------------------------------------------------
(* Bag generator (Fisher-Yates over ALL); bag positions are 0-based in the *)
(* source and 1-based here.  A draw equal to 1.0 indexes one past the      *)
(* prefix; the array read there is undefined and is kept as "undefined".   *)

Swap(bag, i, j) ==
  IF j > Len(bag)
  THEN [bag EXCEPT ![i] = "undefined"] \o <<bag[i]>>
  ELSE [bag EXCEPT ![i] = bag[j], ![j] = bag[i]]

RECURSIVE Shuffle(_, _, _)
Shuffle(bag, w, i) ==
  IF i <= 0 THEN bag
  ELSE LET w2 == RNGNext(w)
           j == ScaleIndex(w2, i + 1)
       IN Shuffle(Swap(bag, i + 1, j + 1), w2, i - 1)

generateBag(w) == Shuffle(ALL, w, Len(ALL) - 1)

\* a word <<hi, lo>> from its two halves
Word(hi, lo) == <<hi, lo>>

\* The seeds createGame is given in this model: the default 1234; 0x0a11ce
\* and 0xb0b00, the seeds of the local two-player screen; and 0x5e6cfce7,
\* from which the first draw of the generator is 0xffffffff / 0xffffffff
Seeds == {Word(0, 1234), Word(10, 4558), Word(11, 2816), Word(24172, 64743)}

\* state.seed only ever holds the seed given or that seed xor 0x9e3779b9;
\* the bag of each is computed once
BagTable ==
  [w \in Seeds \cup {XorW(x, Golden) : x \in Seeds} |-> generateBag(RNGInit(w))]

bagOf(w) == IF w \in DOMAIN BagTable THEN BagTable[w] ELSE generateBag(RNGInit(w))

----------------------------------------------------------------------------
(* Types and parameters                                                    *)

HIDDEN_ROWS == 1

null == [type |-> "none", x |-> 0, y |-> 0, rot |-> 0]

NoInputs ==
  [left |-> FALSE, right |-> FALSE, rotCW |-> FALSE, rotCCW |-> FALSE,
   softDrop |-> FALSE, hardDrop |-> FALSE, hold |-> FALSE, respawn |-> FALSE]

\* sixteenths of a cell in one unit of fallAccum
FallUnit == 16

\* milliseconds of elapsed time that add (2 * g) units to fallAccum
FallQuantumMs == 125

\* DEFAULT_PARAMS; gravity and the soft-drop bonus are doubled so that the
\* half cells per second of the source stay integers
DEFAULT_PARAMS ==
  [lockDelayMs |-> 500, dasMs |-> 160, arrMs |-> 30, softDropBonusX2 |-> 30]

gravityCellsPerSecX2(level) == 3 + level

lineClearScore(lines, level) ==
  LET table == <<0, 100, 300, 500, 800>>
      base == IF lines + 1 \in 1..Len(table) THEN table[lines + 1] ELSE 0
  IN base * (level + 1)

levelUp(total) == total \div 5

----------------------------------------------------------------------------
(* Board                                                                   *)

EmptyRow(w) == [c \in 1..w |-> 0]

makeBoard(w, h) == [r \in 1..h |-> EmptyRow(w)]

\* the board cells (gx, gy) a piece covers
PieceCells(p) ==
  LET cells == shapeCells(p.type, p.rot)
  IN {<<p.x + cells[i][1], p.y + cells[i][2]>> : i \in 1..Len(cells)}

collides(s, p) ==
  \E c \in PieceCells(p) :
     \/ c[1] < 0
     \/ c[1] >= s.boardW
     \/ c[2] < 0
     \/ c[2] >= s.boardH
     \/ (c[2] >= 0 /\ s.board[c[2] + 1][c[1] + 1] # 0)

\* lockToBoard writing a cell above the board onto the top row
lockToBoard_clamped(s, p) ==
  LET cs == {<<c[1], IF c[2] < 0 THEN 0 ELSE c[2]>> : c \in PieceCells(p)}
  IN [s EXCEPT !.board =
        [r \in 1..s.boardH |->
           [c \in 1..s.boardW |->
              IF <<c - 1, r - 1>> \in cs THEN 1 ELSE s.board[r][c]]]]

lockToBoard(s, p) ==
  LET cs == PieceCells(p)
  IN [s EXCEPT !.board =
        [r \in 1..s.boardH |->
           [c \in 1..s.boardW |->
              IF <<c - 1, r - 1>> \in cs THEN 1 ELSE s.board[r][c]]]]

RowFull(s, y) == \A c \in 1..s.boardW : s.board[y + 1][c] # 0

\* fullRows returning at the first full row it finds
fullRows_firstOnly(s) ==
  LET F[y \in 0..s.boardH] ==
        IF y = 0 THEN <<>>
        ELSE IF F[y - 1] # <<>> THEN F[y - 1]
        ELSE IF RowFull(s, y - 1) THEN <<y - 1>> ELSE <<>>
  IN F[s.boardH]

\* indices of the full rows, ascending
fullRows(s) ==
  LET F[y \in 0..s.boardH] ==
        IF y = 0 THEN <<>>
        ELSE IF RowFull(s, y - 1) THEN Append(F[y - 1], y - 1) ELSE F[y - 1]
  IN F[s.boardH]

\* splice(y, 1) then unshift(empty row)
RemoveRow(board, y, w) ==
  <<EmptyRow(w)>> \o SubSeq(board, 1, y) \o SubSeq(board, y + 2, Len(board))

RECURSIVE clearRowsFrom(_, _, _)
clearRowsFrom(s, rows, i) ==
  IF i > Len(rows) THEN s
  ELSE clearRowsFrom([s EXCEPT !.board = RemoveRow(@, rows[i], s.boardW)],
                     rows, i + 1)

\* clearRows going through the rows from the last to the first
RECURSIVE clearRowsDown(_, _, _)
clearRowsDown(s, rows, i) ==
  IF i < 1 THEN s
  ELSE clearRowsDown([s EXCEPT !.board = RemoveRow(@, rows[i], s.boardW)],
                     rows, i - 1)

clearRows_descending(s, rows) == clearRowsDown(s, rows, Len(rows))

clearRows(s, rows) == clearRowsFrom(s, rows, 1)

----------------------------------------------------------------------------
(* Queue and spawn                                                         *)

ensureNext(s) ==
  IF Len(s.next) < 7
  THEN LET seed2 == XorW(s.seed, Golden)
       IN [s EXCEPT !.seed = seed2,
                    !.next = @ \o bagOf(seed2)]
  ELSE s

pieceWidth(p) ==
  LET cells == shapeCells(p.type, p.rot)
  IN MaxOf({0} \cup {cells[i][1] : i \in 1..Len(cells)}) + 1

spawnOffsetTop(p) == 0

\* floor(a / 2) for any integer a
FloorHalf(a) == (a - (a % 2)) \div 2

\* SpawnPiece rounding the centred column to the nearest instead of down
SpawnPiece_rounded(s) ==
  LET q == ensureNext(s)
      p0 == [type |-> Head(q.next), x |-> 0, y |-> 0, rot |-> 0]
  IN [p0 EXCEPT !.x = FloorHalf(s.boardW - pieceWidth(p0) + 1),
                !.y = -spawnOffsetTop(p0)]

\* the piece spawnNext builds from the head of the (refilled) queue
SpawnPiece(s) ==
  LET q == ensureNext(s)
      p0 == [type |-> Head(q.next), x |-> 0, y |-> 0, rot |-> 0]
  IN [p0 EXCEPT !.x = FloorHalf(s.boardW - pieceWidth(p0)),
                !.y = -spawnOffsetTop(p0)]

\* spawnNext that drops the colliding piece without ending the game
spawnNext_noGameOver(s) ==
  LET q == ensureNext(s)
      s1 == [q EXCEPT !.next = Tail(@)]
      piece == SpawnPiece(s)
  IN IF collides(s1, piece)
     THEN [s1 EXCEPT !.active = null]
     ELSE [s1 EXCEPT !.active = piece, !.lockTimerMs = 0, !.canHold = TRUE]

\* spawnNext that clears gameOver when the spawned piece fits
spawnNext_clearsGameOver(s) ==
  LET q == ensureNext(s)
      s1 == [q EXCEPT !.next = Tail(@)]
      piece == SpawnPiece(s)
  IN IF collides(s1, piece)
     THEN [s1 EXCEPT !.active = null, !.gameOver = TRUE]
     ELSE [s1 EXCEPT !.active = piece, !.lockTimerMs = 0, !.canHold = TRUE,
                     !.gameOver = FALSE]

spawnNext(s) ==
  LET q == ensureNext(s)
      s1 == [q EXCEPT !.next = Tail(@)]
      piece == SpawnPiece(s)
  IN IF collides(s1, piece)
     THEN [s1 EXCEPT !.active = null, !.gameOver = TRUE]
     ELSE [s1 EXCEPT !.active = piece, !.lockTimerMs = 0, !.canHold = TRUE]

\* createGame allocating the visible rows only
createGame_noHiddenRows(boardW, boardH, seed) ==
  LET totalH == boardH
  IN spawnNext(
       [gameOver |-> FALSE, tick |-> 0, boardW |-> boardW, boardH |-> totalH,
        board |-> makeBoard(boardW, totalH), level |-> 0, lines |-> 0,
        score |-> 0, active |-> null, hold |-> "none", canHold |-> TRUE,
        next |-> <<>>, fallAccum |-> 0, lockTimerMs |-> 0,
        dasLeftMs |-> 0, dasRightMs |-> 0, arrLeftMs |-> 0, arrRightMs |-> 0,
        seed |-> seed])

createGame(boardW, boardH, seed) ==
  LET totalH == boardH + HIDDEN_ROWS
  IN spawnNext(
       [gameOver |-> FALSE, tick |-> 0, boardW |-> boardW, boardH |-> totalH,
        board |-> makeBoard(boardW, totalH), level |-> 0, lines |-> 0,
        score |-> 0, active |-> null, hold |-> "none", canHold |-> TRUE,
        next |-> <<>>, fallAccum |-> 0, lockTimerMs |-> 0,
        dasLeftMs |-> 0, dasRightMs |-> 0, arrLeftMs |-> 0, arrRightMs |-> 0,
        seed |-> seed])

----------------------------------------------------------------------------
(* Moves                                                                   *)

\* tryMove without the collision test
tryMove_unchecked(s, dx, dy) ==
  IF s.active = null THEN s
  ELSE [s EXCEPT !.active = [s.active EXCEPT !.x = @ + dx, !.y = @ + dy]]

tryMove(s, dx, dy) ==
  IF s.active = null THEN s
  ELSE LET n == [s.active EXCEPT !.x = @ + dx, !.y = @ + dy]
       IN IF collides(s, n) THEN s ELSE [s EXCEPT !.active = n]

\* the boolean tryMove returns
tryMoveOk(s, dx, dy) ==
  /\ s.active # null
  /\ ~collides(s, [s.active EXCEPT !.x = @ + dx, !.y = @ + dy])

kicks == << <<1, 0>>, <<-1, 0>>, <<0, -1>>, <<0, 1>> >>

\* tryRotate keeping the rotated piece when every kick collides
tryRotate_forced(s, dir) ==
  IF s.active = null THEN s
  ELSE LET n == [s.active EXCEPT !.rot = Mod4(@ + dir)]
           K(i) == [n EXCEPT !.x = @ + kicks[i][1], !.y = @ + kicks[i][2]]
           ok == {i \in 1..Len(kicks) : ~collides(s, K(i))}
       IN IF ~collides(s, n) THEN [s EXCEPT !.active = n]
          ELSE IF ok # {} THEN [s EXCEPT !.active = K(MinOf(ok))]
          ELSE [s EXCEPT !.active = n]

\* tryRotate that goes to the kicks without testing the turned piece in place
tryRotate_kicksOnly(s, dir) ==
  IF s.active = null THEN s
  ELSE LET n == [s.active EXCEPT !.rot = Mod4(@ + dir)]
           K(i) == [n EXCEPT !.x = @ + kicks[i][1], !.y = @ + kicks[i][2]]
           ok == {i \in 1..Len(kicks) : ~collides(s, K(i))}
       IN IF ok # {} THEN [s EXCEPT !.active = K(MinOf(ok))]
          ELSE s

tryRotate(s, dir) ==
  IF s.active = null THEN s
  ELSE LET n == [s.active EXCEPT !.rot = Mod4(@ + dir)]
           K(i) == [n EXCEPT !.x = @ + kicks[i][1], !.y = @ + kicks[i][2]]
           ok == {i \in 1..Len(kicks) : ~collides(s, K(i))}
       IN IF ~collides(s, n) THEN [s EXCEPT !.active = n]
          ELSE IF ok # {} THEN [s EXCEPT !.active = K(MinOf(ok))]
          ELSE s

grounded(s) ==
  /\ s.active # null
  /\ collides(s, [s.active EXCEPT !.y = @ + 1])

\* some cell of the active piece lies above row 0
topOut(s) == \E c \in PieceCells(s.active) : c[2] < 0

\* lockClear that leaves the level as it was
lockClear_staleLevel(s) ==
  LET s1 == [lockToBoard(s, s.active) EXCEPT !.active = null]
      rows == fullRows(s1)
  IN IF Len(rows) > 0
     THEN LET c == clearRows(s1, rows)
              n == c.lines + Len(rows)
          IN [c EXCEPT !.lines = n,
                       !.score = @ + lineClearScore(Len(rows), c.level)]
     ELSE s1

\* lockClear that recomputes the level before it scores the cleared rows
lockClear_scoresNewLevel(s) ==
  LET s1 == [lockToBoard(s, s.active) EXCEPT !.active = null]
      rows == fullRows(s1)
  IN IF Len(rows) > 0
     THEN LET c == clearRows(s1, rows)
              n == c.lines + Len(rows)
          IN [c EXCEPT !.lines = n,
                       !.score = @ + lineClearScore(Len(rows), levelUp(n)),
                       !.level = levelUp(n)]
     ELSE s1

\* lockAndClear up to, not including, its spawnNext: the piece is written to
\* the board, full rows are cleared and scored, the level is recomputed
lockClear(s) ==
  LET s1 == [lockToBoard(s, s.active) EXCEPT !.active = null]
      rows == fullRows(s1)
  IN IF Len(rows) > 0
     THEN LET c == clearRows(s1, rows)
              n == c.lines + Len(rows)
          IN [c EXCEPT !.lines = n,
                       !.score = @ + lineClearScore(Len(rows), c.level),
                       !.level = levelUp(n)]
     ELSE s1

lockAndClear(s) ==
  IF s.active = null THEN s
  ELSE IF topOut(s)
  THEN [lockToBoard(s, s.active) EXCEPT !.active = null, !.gameOver = TRUE]
  ELSE spawnNext(lockClear(s))

----------------------------------------------------------------------------
(* Horizontal auto-repeat                                                  *)

\* while (arr >= stepEvery) { if (!tryMove(dx, 0)) break; arr -= stepEvery }
\* on the pair <<state, arr>>
RECURSIVE arrLoop(_, _, _, _)
arrLoop(s, arr, dx, stepEvery) ==
  IF arr >= stepEvery /\ tryMoveOk(s, dx, 0)
  THEN arrLoop(tryMove(s, dx, 0), arr - stepEvery, dx, stepEvery)
  ELSE <<s, arr>>

\* handleDasArr without the immediate move of a first press
handleDasArr_noFirstMove(s, in, dtMs, p) ==
  IF s.active = null THEN s
  ELSE IF in.left /\ ~in.right
  THEN LET t == IF s.dasLeftMs = 0
                THEN [s EXCEPT !.dasLeftMs = 1, !.arrLeftMs = 0]
                ELSE LET d == [s EXCEPT !.dasLeftMs = @ + dtMs]
                     IN IF d.dasLeftMs >= p.dasMs
                        THEN LET r == arrLoop(d, d.arrLeftMs + dtMs, -1,
                                              MaxOf({1, p.arrMs}))
                             IN [r[1] EXCEPT !.arrLeftMs = r[2]]
                        ELSE d
       IN [t EXCEPT !.dasRightMs = 0, !.arrRightMs = 0]
  ELSE IF in.right /\ ~in.left
  THEN LET t == IF s.dasRightMs = 0
                THEN [s EXCEPT !.dasRightMs = 1, !.arrRightMs = 0]
                ELSE LET d == [s EXCEPT !.dasRightMs = @ + dtMs]
                     IN IF d.dasRightMs >= p.dasMs
                        THEN LET r == arrLoop(d, d.arrRightMs + dtMs, 1,
                                              MaxOf({1, p.arrMs}))
                             IN [r[1] EXCEPT !.arrRightMs = r[2]]
                        ELSE d
       IN [t EXCEPT !.dasLeftMs = 0, !.arrLeftMs = 0]
  ELSE [s EXCEPT !.dasLeftMs = 0, !.arrLeftMs = 0,
                 !.dasRightMs = 0, !.arrRightMs = 0]

\* the repeat interval taken as it is configured
stepEvery_unclamped(p) == p.arrMs

\* const stepEvery = Math.max(1, params.arrMs)
stepEvery(p) == MaxOf({1, p.arrMs})

handleDasArr(s, in, dtMs, p) ==
  IF s.active = null THEN s
  ELSE IF in.left /\ ~in.right
  THEN LET t == IF s.dasLeftMs = 0
                THEN [tryMove(s, -1, 0) EXCEPT !.dasLeftMs = 1, !.arrLeftMs = 0]
                ELSE LET d == [s EXCEPT !.dasLeftMs = @ + dtMs]
                     IN IF d.dasLeftMs >= p.dasMs
                        THEN LET r == arrLoop(d, d.arrLeftMs + dtMs, -1,
                                              stepEvery(p))
                             IN [r[1] EXCEPT !.arrLeftMs = r[2]]
                        ELSE d
       IN [t EXCEPT !.dasRightMs = 0, !.arrRightMs = 0]
  ELSE IF in.right /\ ~in.left
  THEN LET t == IF s.dasRightMs = 0
                THEN [tryMove(s, 1, 0) EXCEPT !.dasRightMs = 1, !.arrRightMs = 0]
                ELSE LET d == [s EXCEPT !.dasRightMs = @ + dtMs]
                     IN IF d.dasRightMs >= p.dasMs
                        THEN LET r == arrLoop(d, d.arrRightMs + dtMs, 1,
                                              stepEvery(p))
                             IN [r[1] EXCEPT !.arrRightMs = r[2]]
                        ELSE d
       IN [t EXCEPT !.dasLeftMs = 0, !.arrLeftMs = 0]
  ELSE [s EXCEPT !.dasLeftMs = 0, !.arrLeftMs = 0,
                 !.dasRightMs = 0, !.arrRightMs = 0]

----------------------------------------------------------------------------
(* step                                                                    *)

\* tick++, the one-shot rotations and the horizontal auto-repeat
stepInputs(s, in, dtMs, p) ==
  LET s0 == [s EXCEPT !.tick = @ + 1]
      s1 == IF in.rotCW THEN tryRotate(s0, 1) ELSE s0
      s2 == IF in.rotCCW THEN tryRotate(s1, -1) ELSE s1
  IN handleDasArr(s2, in, dtMs, p)

\* while (!grounded) { if (!tryMove(0, +1)) break; hardDropCells++ }
RECURSIVE dropDown(_)
dropDown(s) ==
  IF ~grounded(s) /\ tryMoveOk(s, 0, 1) THEN dropDown(tryMove(s, 0, 1)) ELSE s

hardDropCells(s) == dropDown(s).active.y - s.active.y

\* hardDropped awarding one point per cell instead of two
hardDropped_onePerCell(s) ==
  LET n == hardDropCells(s)
      d == dropDown(s)
  IN IF n > 0 THEN [d EXCEPT !.score = @ + n] ELSE d

\* the dropped piece with the hard-drop points added, as handed to lockAndClear
hardDropped(s) ==
  LET n == hardDropCells(s)
      d == dropDown(s)
  IN IF n > 0 THEN [d EXCEPT !.score = @ + n * 2] ELSE d

stepHardDrop(s) == lockAndClear(hardDropped(s))

\* the gravity loop consuming a cell of the accumulator also when the piece
\* is grounded
RECURSIVE gravityLoop_consumes(_, _, _, _, _)
gravityLoop_consumes(s, in, dtMs, p, soft) ==
  IF s.fallAccum >= FallUnit /\ s.active # null
  THEN IF ~tryMoveOk(s, 0, 1)
       THEN LET t == [s EXCEPT !.lockTimerMs = @ + dtMs,
                               !.fallAccum = @ - FallUnit]
            IN IF t.lockTimerMs >= p.lockDelayMs
               THEN [st |-> t, soft |-> soft, ret |-> TRUE]
               ELSE [st |-> t, soft |-> soft, ret |-> FALSE]
       ELSE gravityLoop_consumes([tryMove(s, 0, 1) EXCEPT !.lockTimerMs = 0,
                                                          !.fallAccum = @ - FallUnit],
                                 in, dtMs, p, IF in.softDrop THEN soft + 1 ELSE soft)
  ELSE [st |-> s, soft |-> soft, ret |-> FALSE]

\* the gravity loop; r.soft is the soft-drop cells counted; r.ret is TRUE when
\* the loop leaves through the lock branch, and r.st is then the state handed
\* to lockAndClear
RECURSIVE gravityLoop(_, _, _, _, _)
gravityLoop(s, in, dtMs, p, soft) ==
  IF s.fallAccum >= FallUnit /\ s.active # null
  THEN IF ~tryMoveOk(s, 0, 1)
       THEN LET t == [s EXCEPT !.lockTimerMs = @ + dtMs]
            IN IF t.lockTimerMs >= p.lockDelayMs
               THEN [st |-> t, soft |-> soft, ret |-> TRUE]
               ELSE [st |-> t, soft |-> soft, ret |-> FALSE]
       ELSE gravityLoop([tryMove(s, 0, 1) EXCEPT !.lockTimerMs = 0,
                                                 !.fallAccum = @ - FallUnit],
                        in, dtMs, p, IF in.softDrop THEN soft + 1 ELSE soft)
  ELSE [st |-> s, soft |-> soft, ret |-> FALSE]

\* addGravity with the gravity of level 0 at every level
addGravity_levelZero(s, in, dtMs, p) ==
  LET g2 == gravityCellsPerSecX2(0)
              + (IF in.softDrop THEN p.softDropBonusX2 ELSE 0)
  IN [s EXCEPT !.fallAccum = @ + (g2 * dtMs) \div FallQuantumMs]

\* state.fallAccum += (g * dtMs) / 1000
addGravity(s, in, dtMs, p) ==
  LET g2 == gravityCellsPerSecX2(s.level)
              + (IF in.softDrop THEN p.softDropBonusX2 ELSE 0)
  IN [s EXCEPT !.fallAccum = @ + (g2 * dtMs) \div FallQuantumMs]

\* the state after the gravity loop and the soft-drop award, before respawn
afterGravity(s, in, dtMs, p) ==
  LET r == gravityLoop(addGravity(s, in, dtMs, p), in, dtMs, p, 0)
  IN IF r.soft > 0 THEN [r.st EXCEPT !.score = @ + r.soft] ELSE r.st

\* stepGravity that leaves the accumulator as it is after a lock
stepGravity_keepsAccum(s, in, dtMs, p) ==
  LET r == gravityLoop(addGravity(s, in, dtMs, p), in, dtMs, p, 0)
      s2 == afterGravity(s, in, dtMs, p)
  IN IF r.ret THEN lockAndClear(r.st)
     ELSE IF in.respawn THEN spawnNext(s2) ELSE s2

\* stepGravity that never acts on the respawn intent
stepGravity_ignoresRespawn(s, in, dtMs, p) ==
  LET r == gravityLoop(addGravity(s, in, dtMs, p), in, dtMs, p, 0)
      s2 == afterGravity(s, in, dtMs, p)
  IN IF r.ret THEN [lockAndClear(r.st) EXCEPT !.fallAccum = 0] ELSE s2

stepGravity(s, in, dtMs, p) ==
  LET r == gravityLoop(addGravity(s, in, dtMs, p), in, dtMs, p, 0)
      s2 == afterGravity(s, in, dtMs, p)
  IN IF r.ret THEN [lockAndClear(r.st) EXCEPT !.fallAccum = 0]
     ELSE IF in.respawn THEN spawnNext(s2) ELSE s2

\* step that moves the type of the active piece to hold when hold is set
step_holds(s, in, dtMs, p) ==
  LET s0 == IF in.hold /\ s.canHold /\ s.active # null
            THEN [s EXCEPT !.hold = s.active.type, !.canHold = FALSE]
            ELSE s
      s3 == stepInputs(s0, in, dtMs, p)
  IN IF in.hardDrop /\ s3.active # null
     THEN stepHardDrop(s3)
     ELSE stepGravity(s3, in, dtMs, p)

step(s, in, dtMs, p) ==
  LET s3 == stepInputs(s, in, dtMs, p)
  IN IF in.hardDrop /\ s3.active # null
     THEN stepHardDrop(s3)
     ELSE stepGravity(s3, in, dtMs, p)

----------------------------------------------------------------------------
(* What the last call of step did (history of the call, read by the        *)
(* properties; it takes no part in the computation of the state)           *)

\* the direction the horizontal handling acts on: +1 right alone, -1 left
\* alone, 0 neither or both
heldDir(in) ==
  IF in.right /\ ~in.left THEN 1 ELSE IF in.left /\ ~in.right THEN -1 ELSE 0

NoEvent ==
  [kind |-> "create", dtMs |-> 0, idle |-> FALSE, rotated |-> FALSE,
   hardDrop |-> FALSE, softDrop |-> FALSE, respawn |-> FALSE,
   piece |-> FALSE, left |-> FALSE, right |-> FALSE, shift |-> 0,
   press |-> [dir |-> 0, heldMs |-> 0, moves |-> 0, first |-> FALSE,
              blocked |-> FALSE],
   accum |-> 0, fell |-> 0, dropFrom |-> null, dropped |-> 0,
   lockedPiece |-> null,
   cleared |-> 0, spawn |-> "none", spawnBoard |-> <<>>]

\* the outcome of the spawnNext call made on state b
SpawnEvent(e, b) ==
  [e EXCEPT !.spawnBoard = b.board,
            !.spawn = IF collides(ensureNext(b), SpawnPiece(b))
                      THEN "collide" ELSE "ok"]

\* the lockAndClear call made on state t (t.active is not null)
LockEvent(e, t) ==
  LET e1 == [e EXCEPT !.lockedPiece = t.active,
                      !.cleared = Len(fullRows(lockToBoard(t, t.active)))]
  IN IF topOut(t) THEN e1 ELSE SpawnEvent(e1, lockClear(t))

\* kind: the path step took ("hardDrop", "gravityLock", "respawn", "plain");
\* idle: every intent false and dtMs = 0; rotated: a rotation was asked for;
\* hardDrop, softDrop, respawn: the intent was set; press: see pressEvent;
\* piece: a piece was active when the call began; left, right: the
\* direction was held; shift: the columns handleDasArr moved the piece;
\* accum: fallAccum once this call's gravity was added (gravity paths);
\* fell: the cells the piece descended in the gravity loop;
\* dropFrom, dropped: the piece before the hard drop and the cells it fell;
\* lockedPiece, cleared: the piece handed to lockAndClear and the full rows
\* found; spawn, spawnBoard: the outcome of spawnNext and the board it saw
stepEventAt(s, in, dtMs, p, s2, s3, g, r) ==
  LET e0 == [NoEvent EXCEPT !.kind = "plain", !.dtMs = dtMs,
                            !.piece = (s.active # null),
                            !.left = in.left, !.right = in.right,
                            !.shift = IF s.active = null THEN 0
                                      ELSE s3.active.x - s2.active.x,
                            !.idle = (in = NoInputs /\ dtMs = 0),
                            !.rotated = (in.rotCW \/ in.rotCCW),
                            !.hardDrop = in.hardDrop,
                            !.softDrop = in.softDrop,
                            !.respawn = in.respawn]
      e1 == [e0 EXCEPT !.accum = g.fallAccum,
                       !.fell = IF s3.active = null THEN 0
                                ELSE r.st.active.y - s3.active.y]
  IN IF in.hardDrop /\ s3.active # null
     THEN LockEvent([e0 EXCEPT !.kind = "hardDrop", !.dropFrom = s3.active,
                               !.dropped = hardDropCells(s3)],
                    hardDropped(s3))
     ELSE IF r.ret THEN LockEvent([e1 EXCEPT !.kind = "gravityLock"], r.st)
     ELSE IF in.respawn
     THEN SpawnEvent([e1 EXCEPT !.kind = "respawn"],
                     afterGravity(s3, in, dtMs, p))
     ELSE e1

\* g: the state once addGravity has run; the gravity loop runs on it
stepEventFall(s, in, dtMs, p, s2, s3, g) ==
  stepEventAt(s, in, dtMs, p, s2, s3, g, gravityLoop(g, in, dtMs, p, 0))

\* s2, s3: the state after the input handling of step without and with the
\* horizontal intents
stepEventIn(s, in, dtMs, p, s2, s3) ==
  stepEventFall(s, in, dtMs, p, s2, s3, addGravity(s3, in, dtMs, p))

stepEvent(s, in, dtMs, p) ==
  stepEventIn(s, in, dtMs, p,
              stepInputs(s, [in EXCEPT !.left = FALSE, !.right = FALSE],
                         dtMs, p),
              stepInputs(s, in, dtMs, p))

----------------------------------------------------------------------------
(* The game as a state machine: createGame, then calls of step             *)

\* createGame's arguments: boardW, boardH, seed
Games ==
  { <<4, 1, Word(0, 1234)>>, <<4, 3, Word(10, 4558)>>, <<4, 6, Word(10, 4558)>> }

\* elapsed times fed to step, multiples of FallQuantumMs
DtChoices == {0, 250}

Flags == {"left", "right", "rotCW", "rotCCW", "softDrop", "hardDrop", "respawn"}

\* the Inputs record with exactly the flags of F set
InputsOf(F) ==
  [left |-> "left" \in F, right |-> "right" \in F, rotCW |-> "rotCW" \in F,
   rotCCW |-> "rotCCW" \in F, softDrop |-> "softDrop" \in F,
   hardDrop |-> "hardDrop" \in F, hold |-> FALSE, respawn |-> "respawn" \in F]

\* at most MaxFlags intents are set in one call
MaxFlags == 2

InputSets == {InputsOf(F) : F \in {G \in SUBSET Flags : Cardinality(G) <= MaxFlags}}

MaxTick == 3

Init ==
  /\ \E g \in Games : state = createGame(g[1], g[2], g[3])
  /\ ev = NoEvent
  /\ rng = NoRng /\ call = NoCall

Step(in, dtMs) ==
  /\ state.tick < MaxTick
  /\ state' = step(state, in, dtMs, DEFAULT_PARAMS)
  /\ ev' = stepEvent(state, in, dtMs, DEFAULT_PARAMS)
  /\ UNCHANGED <<rng, call>>

Next == \E in \in InputSets, dtMs \in DtChoices : Step(in, dtMs)

Spec == Init /\ [][Next]_vars

----------------------------------------------------------------------------
(* A game played by placements: every call of step turns and shifts the    *)
(* piece by at most one and hard-drops it, with no time elapsing           *)

PlayGame == <<4, 5, Word(10, 4558)>>

PlayTurns == {"none", "rotCW", "rotCCW"}

PlayShifts == {"none", "left", "right"}

PlayInputs ==
  {InputsOf({tu, sh, "hardDrop"}) : tu \in PlayTurns, sh \in PlayShifts}

MaxDrops == 6

InitPlay ==
  /\ state = createGame(PlayGame[1], PlayGame[2], PlayGame[3])
  /\ ev = NoEvent
  /\ rng = NoRng /\ call = NoCall

Drop(in) ==
  /\ state.tick < MaxDrops
  /\ state' = step(state, in, 0, DEFAULT_PARAMS)
  /\ ev' = stepEvent(state, in, 0, DEFAULT_PARAMS)
  /\ UNCHANGED <<rng, call>>

NextPlay == \E in \in PlayInputs : Drop(in)

SpecPlay == InitPlay /\ [][NextPlay]_vars

----------------------------------------------------------------------------
(* A game in which only left and right are held, over steps of elapsed     *)
(* time, with the history of the current press kept next to the state      *)

\* the press after one more call of step: dir, the direction held; heldMs,
\* the time elapsed in the calls after the first call of the press; moves,
\* the cells handleDasArr moved the piece since the press began; first, this
\* call began the press; blocked, after some call of the press the piece
\* could not move one cell further in the direction held
pressEvent(pr, s, in, dtMs, p) ==
  LET d == heldDir(in)
      s3 == stepInputs(s, in, dtMs, p)
      moved == (s3.active.x - s.active.x) * d
      stuck == ~tryMoveOk(s3, d, 0)
  IN IF d = 0 \/ s.active = null THEN NoEvent.press
     ELSE IF pr.dir = d
     THEN [dir |-> d, heldMs |-> pr.heldMs + dtMs, moves |-> pr.moves + moved,
           first |-> FALSE, blocked |-> pr.blocked \/ stuck]
     ELSE [dir |-> d, heldMs |-> 0, moves |-> moved, first |-> TRUE,
           blocked |-> stuck]

DasGame == <<12, 2, Word(10, 4558)>>

DasInputs == {InputsOf({}), InputsOf({"left"}), InputsOf({"right"})}

DasDt == {0, 125, 250}

MaxHolds == 4

InitDas ==
  /\ state = createGame(DasGame[1], DasGame[2], DasGame[3])
  /\ ev = NoEvent
  /\ rng = NoRng /\ call = NoCall

Hold(in, dtMs) ==
  /\ state.tick < MaxHolds
  /\ state' = step(state, in, dtMs, DEFAULT_PARAMS)
  /\ ev' = [stepEvent(state, in, dtMs, DEFAULT_PARAMS) EXCEPT
              !.press = pressEvent(ev.press, state, in, dtMs, DEFAULT_PARAMS)]
  /\ UNCHANGED <<rng, call>>

NextDas == \E in \in DasInputs, dtMs \in DasDt : Hold(in, dtMs)

SpecDas == InitDas /\ [][NextDas]_vars

----------------------------------------------------------------------------
(* A game in which the piece falls: soft drop held or not, the piece       *)
(* shifted or not, over steps of elapsed time up to the lock delay         *)

SoftGames == { <<4, 3, Word(10, 4558)>>, <<4, 6, Word(10, 4558)>> }

SoftInputs ==
  {InputsOf({}), InputsOf({"softDrop"}), InputsOf({"left"}),
   InputsOf({"softDrop", "right"})}

\* elapsed times, multiples of FallQuantumMs; the last is lockDelayMs
SoftDt == {0, 125, 250, 500}

MaxFalls == 3

InitSoft ==
  /\ \E g \in SoftGames : state = createGame(g[1], g[2], g[3])
  /\ ev = NoEvent
  /\ rng = NoRng /\ call = NoCall

Fall(in, dtMs) ==
  /\ state.tick < MaxFalls
  /\ state' = step(state, in, dtMs, DEFAULT_PARAMS)
  /\ ev' = stepEvent(state, in, dtMs, DEFAULT_PARAMS)
  /\ UNCHANGED <<rng, call>>

NextSoft == \E in \in SoftInputs, dtMs \in SoftDt : Fall(in, dtMs)

SpecSoft == InitSoft /\ [][NextSoft]_vars

----------------------------------------------------------------------------
(* The game of SpecPlay with the piece left to fall late in the game, once *)
(* lines may have been cleared and the level may have risen                *)

LevelInputs == {InputsOf({}), InputsOf({"softDrop"})}

LevelDt == {125, 250}

\* the steps of elapsed time allowed after the drops
MaxDescends == 2

\* the calls of step open after t calls: a placement of SpecPlay while drops
\* remain, a step of elapsed time from the last drop on
LevelMoves(t) ==
  (IF t < MaxDrops THEN PlayInputs \X {0} ELSE {})
    \cup (IF t >= MaxDrops - 1 THEN LevelInputs \X LevelDt ELSE {})

Descend(in, dtMs) ==
  /\ state.tick < MaxDrops - 1 + MaxDescends
  /\ state' = step(state, in, dtMs, DEFAULT_PARAMS)
  /\ ev' = stepEvent(state, in, dtMs, DEFAULT_PARAMS)
  /\ UNCHANGED <<rng, call>>

NextLevel == \E m \in LevelMoves(state.tick) : Descend(m[1], m[2])

SpecLevel == InitPlay /\ [][NextLevel]_vars

----------------------------------------------------------------------------
(* A game on a board wider than the milliseconds of a step, played with    *)
(* the repeat interval configured as 0: left or right held over steps of   *)
(* elapsed time                                                            *)

\* DEFAULT_PARAMS with arrMs set to 0, and with arrMs set to 1
ArrParams == [DEFAULT_PARAMS EXCEPT !.arrMs = 0]

ArrParamsOne == [DEFAULT_PARAMS EXCEPT !.arrMs = 1]

ArrGame == <<260, 2, Word(10, 4558)>>

ArrInputs == {InputsOf({}), InputsOf({"left"}), InputsOf({"right"})}

ArrDt == {0, 125}

MaxRepeats == 5

InitArr ==
  /\ state = createGame(ArrGame[1], ArrGame[2], ArrGame[3])
  /\ ev = NoEvent
  /\ rng = NoRng /\ call = NoCall

Repeat(in, dtMs) ==
  /\ state.tick < MaxRepeats
  /\ state' = step(state, in, dtMs, ArrParams)
  /\ ev' = stepEvent(state, in, dtMs, ArrParams)
  /\ UNCHANGED <<rng, call>>

NextArr == \E in \in ArrInputs, dtMs \in ArrDt : Repeat(in, dtMs)

SpecArr == InitArr /\ [][NextArr]_vars

----------------------------------------------------------------------------
(* The game of Spec started from the seed 0x5e6cfce7, whose second bag is  *)
(* drawn from the generator state 0x5e6cfce7                               *)

QueueGames == { <<4, 1, Word(24172, 64743)>>, <<4, 3, Word(24172, 64743)>> }

InitQueue ==
  /\ \E g \in QueueGames : state = createGame(g[1], g[2], g[3])
  /\ ev = NoEvent
  /\ rng = NoRng /\ call = NoCall

SpecQueue == InitQueue /\ [][Next]_vars

----------------------------------------------------------------------------
(* Two RNG instances, each constructed from a seed and then drawn from by  *)
(* next() and by generateBag(rng)                                          *)

\* seeds given to new RNG(seed): 0, the fallback constant, 1, the default
\* game seed, and 0x5e6cfce7, whose first xorshift32 state is 0xffffffff
RngSeeds ==
  {Zero32, Golden, Word(0, 1), Word(0, 1234), Word(24172, 64743)}

NoValue == <<>>

\* an RNG instance: arg, the seed the constructor was given; seed, the
\* field this.seed; draws, the calls of next() made; value, the numerator u
\* of the last value u / 0xffffffff that next() returned; bag, the last
\* array generateBag returned when given this instance
NewRNG(seed) ==
  [arg |-> seed, seed |-> RNGInit(seed), draws |-> 0, value |-> NoValue,
   bag |-> <<>>]

\* the instance after n calls of next()
RECURSIVE Drawn(_, _)
Drawn(r, n) ==
  IF n = 0 THEN r
  ELSE Drawn([r EXCEPT !.seed = RNGNext(@), !.draws = @ + 1,
                       !.value = RNGNext(r.seed)], n - 1)

MaxDraws == 8

InitRng ==
  /\ \E sa \in RngSeeds, sb \in RngSeeds :
        rng = [a |-> NewRNG(sa), b |-> NewRNG(sb)]
  /\ state = NoGame /\ ev = NoEvent /\ call = NoCall

\* rng.next() on instance i
DrawNext(i) ==
  /\ rng[i].draws < MaxDraws
  /\ rng' = [rng EXCEPT ![i] = Drawn(@, 1)]
  /\ UNCHANGED <<state, ev, call>>

\* generateBag(rng) on instance i: Len(ALL) - 1 draws
DrawBag(i) ==
  /\ rng[i].draws + Len(ALL) - 1 <= MaxDraws
  /\ rng' = [rng EXCEPT ![i] = [Drawn(@, Len(ALL) - 1) EXCEPT
                                  !.bag = generateBag(rng[i].seed)]]
  /\ UNCHANGED <<state, ev, call>>

NextRng == \E i \in {"a", "b"} : DrawNext(i) \/ DrawBag(i)

SpecRng == InitRng /\ [][NextRng]_vars

----------------------------------------------------------------------------
(* fullRows and clearRows called on every board of a small size; call      *)
(* holds the argument s (the fields of GameState the two functions read),  *)
(* then also the rows fullRows returned and the board clearRows left       *)

BoardW == 2

BoardH == 4

Boards == [1..BoardH -> [1..BoardW -> {0, 1}]]

InitBoard ==
  /\ \E b \in Boards :
        call = [fn |-> "none", s |-> [boardW |-> BoardW, boardH |-> BoardH, board |-> b],
                rows |-> <<>>, out |-> b]
  /\ state = NoGame /\ ev = NoEvent /\ rng = NoRng

\* rows = fullRows(state); clearRows(state, rows)
ClearFull ==
  /\ call.fn = "none"
  /\ call' = [call EXCEPT !.fn = "clearRows",
                          !.rows = fullRows(call.s),
                          !.out = clearRows(call.s, fullRows(call.s)).board]
  /\ UNCHANGED <<state, ev, rng>>

SpecBoard == InitBoard /\ [][ClearFull]_vars

----------------------------------------------------------------------------
(* The kick resolver tryRotateWithKicks(test, rotFrom, dir) of srs.ts,     *)
(* called with collision tests of every kind.  A test is the pair of the   *)
(* set of rotations and the set of offsets it accepts.                     *)

srsKicks == << <<0, 0>>, <<1, 0>>, <<-1, 0>>, <<0, -1>>, <<0, 1>> >>

\* test(rot, dx, dy)
Accepts(test, rot, dx, dy) == rot \in test.rots /\ <<dx, dy>> \in test.offsets

\* the index of the first kick from the i-th on that test accepts, 0 if none
RECURSIVE firstKick(_, _, _)
firstKick(test, rot, i) ==
  IF i > Len(srsKicks) THEN 0
  ELSE IF Accepts(test, rot, srsKicks[i][1], srsKicks[i][2]) THEN i
  ELSE firstKick(test, rot, i + 1)

\* the resolver taking the remainder once, without bringing it to 0..3
tryRotateWithKicks_noWrap(test, rotFrom, dir) ==
  LET rot == JsRem(rotFrom + dir, 4)
      i == firstKick(test, rot, 1)
  IN IF i > 0
     THEN [ok |-> TRUE, rot |-> rot, dx |-> srsKicks[i][1], dy |-> srsKicks[i][2]]
     ELSE [ok |-> FALSE, rot |-> rotFrom, dx |-> 0, dy |-> 0]

tryRotateWithKicks(test, rotFrom, dir) ==
  LET rot == JsRem(JsRem(rotFrom + dir, 4) + 4, 4)
      i == firstKick(test, rot, 1)
  IN IF i > 0
     THEN [ok |-> TRUE, rot |-> rot, dx |-> srsKicks[i][1], dy |-> srsKicks[i][2]]
     ELSE [ok |-> FALSE, rot |-> rotFrom, dx |-> 0, dy |-> 0]

KickTests ==
  [rots : SUBSET (0..3), offsets : SUBSET {srsKicks[i] : i \in 1..Len(srsKicks)}]

KickRotFroms == 0..3

KickDirs == {1, -1}

InitKick ==
  /\ call = NoCall
  /\ state = NoGame /\ ev = NoEvent /\ rng = NoRng

Rotate(test, rotFrom, dir) ==
  /\ call = NoCall
  /\ call' = [fn |-> "tryRotateWithKicks", test |-> test, rotFrom |-> rotFrom,
              dir |-> dir, result |-> tryRotateWithKicks(test, rotFrom, dir)]
  /\ UNCHANGED <<state, ev, rng>>

NextKick ==
  \E test \in KickTests, rotFrom \in KickRotFroms, dir \in KickDirs :
     Rotate(test, rotFrom, dir)

SpecKick == InitKick /\ [][NextKick]_vars

----------------------------------------------------------------------------
(* createGame(boardW, boardH, seed) called twice, each time with its own   *)
(* arguments; call holds both calls: the arguments and the state returned  *)

\* the seeds of Seeds; 0x9e3779b9, which ensureNext turns into 0; and
\* 0x5e6cfce7 xor 0x9e3779b9, whose first bag is drawn from 0x5e6cfce7
CreateSeeds == Seeds \cup {Golden, XorW(Word(24172, 64743), Golden)}

CreateWidths == {4, 5, 10}

CreateHeights == {2, 3, 20}

CreateArgs == CreateWidths \X CreateHeights \X CreateSeeds

\* one call: the arguments and the GameState returned
Created(g) ==
  [boardW |-> g[1], boardH |-> g[2], seed |-> g[3],
   out |-> createGame(g[1], g[2], g[3])]

InitCreate ==
  /\ call = NoCall
  /\ state = NoGame /\ ev = NoEvent /\ rng = NoRng

CreateTwice(ga, gb) ==
  /\ call = NoCall
  /\ call' = [fn |-> "createGame", a |-> Created(ga), b |-> Created(gb)]
  /\ UNCHANGED <<state, ev, rng>>

NextCreate == \E ga \in CreateArgs, gb \in CreateArgs : CreateTwice(ga, gb)

SpecCreate == InitCreate /\ [][NextCreate]_vars

----------------------------------------------------------------------------
(* shapeCells(type, rot) called with every piece type and with step counts *)
(* on both sides of 0, and the footprint then turned by one step and       *)
(* normalized four times over                                              *)

ShapeRots == -8..8

\* cells turned by one step and normalized, n times over
RECURSIVE Turned(_, _)
Turned(cells, n) ==
  IF n = 0 THEN cells ELSE Turned(normalize(rotateCells(cells, 1)), n - 1)

InitShape ==
  /\ call = NoCall
  /\ state = NoGame /\ ev = NoEvent /\ rng = NoRng

Shape(type, rot) ==
  /\ call = NoCall
  /\ call' = [fn |-> "shapeCells", type |-> type, rot |-> rot,
              cells |-> shapeCells(type, rot),
              turns |-> [k \in 1..4 |-> Turned(shapeCells(type, rot), k)]]
  /\ UNCHANGED <<state, ev, rng>>

NextShape == \E type \in Types, rot \in ShapeRots : Shape(type, rot)

SpecShape == InitShape /\ [][NextShape]_vars

----------------------------------------------------------------------------
(* A game in which every step respawns, so that the queue is drawn down    *)
(* and refilled; call holds the log of the game: the seed createGame was   *)
(* given, the bags ensureNext appended and the entries spawnNext took from *)
(* the queue; call.fn becomes "TypeError" when spawnNext throws            *)

BagGame == <<10, 20>>

BagDt == {0, 125}

MaxSpawns == 17

\* the log after createGame returned s
BagLog(seed, s) ==
  [fn |-> "ensureNext", seed0 |-> seed,
   bags |-> << <<s.active.type>> \o s.next >>,
   spawned |-> <<s.active.type>>]

\* the log after one more spawnNext on state s
Logged(log, s) ==
  LET q == ensureNext(s)
  IN [log EXCEPT
        !.bags = IF Len(s.next) < 7
                 THEN Append(@, SubSeq(q.next, Len(s.next) + 1, Len(q.next)))
                 ELSE @,
        !.spawned = Append(@, Head(q.next))]

InitBag ==
  /\ \E seed \in CreateSeeds :
        /\ state = createGame(BagGame[1], BagGame[2], seed)
        /\ call = BagLog(seed, createGame(BagGame[1], BagGame[2], seed))
  /\ ev = NoEvent
  /\ rng = NoRng

\* spawnNext on a queue whose head is undefined: ensureNext has run and
\* shift() has taken the entry when pieceWidth reads SHAPES[undefined] and
\* rotateCells throws a TypeError; the piece that was active stays
spawnNextThrown(s) == [ensureNext(s) EXCEPT !.next = Tail(@)]

\* step with the respawn intent, s4 being the state step hands to spawnNext;
\* when spawnNext throws, step leaves the state as spawnNext left it and the
\* game is called no more
RespawnAt(dtMs, s4) ==
  /\ call.fn = "ensureNext"
  /\ Len(call.spawned) < MaxSpawns
  /\ IF Head(ensureNext(s4).next) = "undefined"
     THEN /\ state' = spawnNextThrown(s4)
          /\ ev' = [NoEvent EXCEPT !.kind = "throw", !.dtMs = dtMs,
                                   !.piece = TRUE, !.respawn = TRUE]
          /\ call' = [Logged(call, s4) EXCEPT !.fn = "TypeError"]
     ELSE /\ state' = step(state, InputsOf({"respawn"}), dtMs, DEFAULT_PARAMS)
          /\ ev' = stepEvent(state, InputsOf({"respawn"}), dtMs, DEFAULT_PARAMS)
          /\ call' = Logged(call, s4)
  /\ UNCHANGED rng

Respawn(dtMs) ==
  RespawnAt(dtMs,
            afterGravity(stepInputs(state, InputsOf({"respawn"}), dtMs,
                                    DEFAULT_PARAMS),
                         InputsOf({"respawn"}), dtMs, DEFAULT_PARAMS))

NextBag == \E dtMs \in BagDt : Respawn(dtMs)

SpecBag == InitBag /\ [][NextBag]_vars

----------------------------------------------------------------------------
(* The game of SpecPlay played by placements and by soft drops left to     *)
(* lock; call counts the calls of lockAndClear that locked a piece         *)

\* elapsed time of a step without hard drop: a grounded piece locks in it
LockDtMs == 500

LockMoves ==
  (PlayInputs \X {0})
    \cup ({InputsOf({"softDrop"}), InputsOf({"softDrop", "left"})} \X {LockDtMs})

\* calls of step
MaxLocks == 6

InitLock ==
  /\ state = createGame(PlayGame[1], PlayGame[2], PlayGame[3])
  /\ ev = NoEvent
  /\ rng = NoRng
  /\ call = [fn |-> "lockAndClear", locks |-> 0]

Place(in, dtMs) ==
  /\ state.tick < MaxLocks
  /\ state' = step(state, in, dtMs, DEFAULT_PARAMS)
  /\ ev' = stepEvent(state, in, dtMs, DEFAULT_PARAMS)
  /\ call' = [call EXCEPT !.locks = IF ev'.lockedPiece # null THEN @ + 1 ELSE @]
  /\ UNCHANGED rng

NextLock == \E m \in LockMoves : Place(m[1], m[2])

SpecLock == InitLock /\ [][NextLock]_vars

----------------------------------------------------------------------------
(* A game on a board of 4 columns in which every call of step either       *)
(* discards the piece (respawn) or turns it at most once and hard-drops it *)

ClearGame == <<4, 5, Word(11, 2816)>>

ClearInputs ==
  {InputsOf({"respawn"})} \cup {InputsOf({tu, "hardDrop"}) : tu \in PlayTurns}

\* calls of step
MaxClears == 7

InitClear ==
  /\ state = createGame(ClearGame[1], ClearGame[2], ClearGame[3])
  /\ ev = NoEvent
  /\ rng = NoRng /\ call = NoCall

Stack(in) ==
  /\ state.tick < MaxClears
  /\ state' = step(state, in, 0, DEFAULT_PARAMS)
  /\ ev' = stepEvent(state, in, 0, DEFAULT_PARAMS)
  /\ UNCHANGED <<rng, call>>

NextClear == \E in \in ClearInputs : Stack(in)

SpecClear == InitClear /\ [][NextClear]_vars

----------------------------------------------------------------------------
(* A game on a board of 40 columns with left held: the piece runs to the   *)
(* wall under auto-repeat, stays against it, and is replaced by the next   *)
(* piece (respawn or hard drop) while the key stays down                   *)

BurstGame == <<40, 2, Word(10, 4558)>>

BurstInputs ==
  {InputsOf({}), InputsOf({"left"}), InputsOf({"left", "respawn"}),
   InputsOf({"left", "hardDrop"})}

BurstDt == {0, 250}

\* calls of step
MaxBursts == 6

InitBurst ==
  /\ state = createGame(BurstGame[1], BurstGame[2], BurstGame[3])
  /\ ev = NoEvent
  /\ rng = NoRng /\ call = NoCall

Press(in, dtMs) ==
  /\ state.tick < MaxBursts
  /\ state' = step(state, in, dtMs, DEFAULT_PARAMS)
  /\ ev' = stepEvent(state, in, dtMs, DEFAULT_PARAMS)
  /\ UNCHANGED <<rng, call>>

NextBurst == \E in \in BurstInputs, dtMs \in BurstDt : Press(in, dtMs)

SpecBurst == InitBurst /\ [][NextBurst]_vars

----------------------------------------------------------------------------
(* A game whose calls of step set the hold intent or leave it unset; call  *)
(* holds the inputs of the last call and the state the same call returns   *)
(* with hold unset                                                         *)

KeepGame == <<4, 3, Word(10, 4558)>>

\* at most one intent beside hold
KeepInputs ==
  {[InputsOf(F) EXCEPT !.hold = h] :
     F \in {G \in SUBSET Flags : Cardinality(G) <= 1}, h \in BOOLEAN}

KeepDt == {0, 250}

\* calls of step
MaxKeeps == 3

InitKeep ==
  /\ state = createGame(KeepGame[1], KeepGame[2], KeepGame[3])
  /\ ev = NoEvent
  /\ rng = NoRng
  /\ call = [fn |-> "step", inputs |-> NoInputs,
             unheld |-> createGame(KeepGame[1], KeepGame[2], KeepGame[3])]

Keep(in, dtMs) ==
  /\ state.tick < MaxKeeps
  /\ state' = step(state, in, dtMs, DEFAULT_PARAMS)
  /\ ev' = stepEvent(state, in, dtMs, DEFAULT_PARAMS)
  /\ call' = [fn |-> "step", inputs |-> in,
              unheld |-> step(state, [in EXCEPT !.hold = FALSE], dtMs,
                              DEFAULT_PARAMS)]
  /\ UNCHANGED rng

NextKeep == \E in \in KeepInputs, dtMs \in KeepDt : Keep(in, dtMs)

SpecKeep == InitKeep /\ [][NextKeep]_vars

----------------------------------------------------------------------------
(* The loops of step counted: call holds, for the last call of step, the   *)
(* times the body of each loop was entered and the accumulator each loop   *)
(* started from; the game is played with arrMs = 30 or with arrMs = 0      *)

\* entries of the body of: while (!grounded(state)) { ... }
RECURSIVE dropDownIters(_)
dropDownIters(s) ==
  IF ~grounded(s)
  THEN IF tryMoveOk(s, 0, 1) THEN 1 + dropDownIters(tryMove(s, 0, 1)) ELSE 1
  ELSE 0

\* the gravity loop without: state.fallAccum -= 1
RECURSIVE gravityLoopIters_keepsAccum(_)
gravityLoopIters_keepsAccum(s) ==
  IF s.fallAccum >= FallUnit /\ s.active # null
  THEN IF tryMoveOk(s, 0, 1)
       THEN 1 + gravityLoopIters_keepsAccum(tryMove(s, 0, 1))
       ELSE 1
  ELSE 0

\* entries of the body of: while (state.fallAccum >= 1 && state.active) { ... }
RECURSIVE gravityLoopIters(_)
gravityLoopIters(s) ==
  IF s.fallAccum >= FallUnit /\ s.active # null
  THEN IF tryMoveOk(s, 0, 1)
       THEN 1 + gravityLoopIters([tryMove(s, 0, 1) EXCEPT !.fallAccum = @ - FallUnit])
       ELSE 1
  ELSE 0

\* entries of the body of: while (state.arrLeftMs >= stepEvery) { ... }
RECURSIVE arrLoopIters(_, _, _, _)
arrLoopIters(s, arr, dx, every) ==
  IF arr >= every
  THEN IF tryMoveOk(s, dx, 0)
       THEN 1 + arrLoopIters(tryMove(s, dx, 0), arr - every, dx, every)
       ELSE 1
  ELSE 0

\* the state handleDasArr is called on
stepTurned(s, in) ==
  LET s0 == [s EXCEPT !.tick = @ + 1]
      s1 == IF in.rotCW THEN tryRotate(s0, 1) ELSE s0
  IN IF in.rotCCW THEN tryRotate(s1, -1) ELSE s1

\* the repeat loop of handleDasArr on state s: its accumulator once dtMs is
\* added and the entries of its body; <<0, 0>> when the loop is not reached
repeatCount(s, in, dtMs, p) ==
  IF s.active = null \/ heldDir(in) = 0 THEN <<0, 0>>
  ELSE LET das == IF heldDir(in) = -1 THEN s.dasLeftMs ELSE s.dasRightMs
           arr == IF heldDir(in) = -1 THEN s.arrLeftMs ELSE s.arrRightMs
       IN IF das # 0 /\ das + dtMs >= p.dasMs
          THEN <<arr + dtMs, arrLoopIters(s, arr + dtMs, heldDir(in), stepEvery(p))>>
          ELSE <<0, 0>>

\* the counts of a call of step, s3 being the state after handleDasArr
LoopCountsAt(s, in, dtMs, p, s3) ==
  [fn |-> "step", arrMs |-> p.arrMs,
   repeatAccum |-> repeatCount(stepTurned(s, in), in, dtMs, p)[1],
   repeat |-> repeatCount(stepTurned(s, in), in, dtMs, p)[2],
   drop |-> IF in.hardDrop /\ s3.active # null THEN dropDownIters(s3) ELSE 0,
   fallAccum |-> IF in.hardDrop /\ s3.active # null THEN 0
                 ELSE addGravity(s3, in, dtMs, p).fallAccum,
   fall |-> IF in.hardDrop /\ s3.active # null THEN 0
            ELSE gravityLoopIters(addGravity(s3, in, dtMs, p))]

LoopCounts(s, in, dtMs, p) ==
  LoopCountsAt(s, in, dtMs, p, stepInputs(s, in, dtMs, p))

LoopGame == <<12, 6, Word(10, 4558)>>

LoopInputs ==
  {InputsOf({}), InputsOf({"left"}), InputsOf({"right"}),
   InputsOf({"softDrop"}), InputsOf({"hardDrop"}), InputsOf({"left", "softDrop"})}

LoopDt == {0, 250}

\* the values of params.arrMs
LoopArrMs == {0, 30}

\* calls of step
MaxLoops == 4

InitLoop ==
  /\ state = createGame(LoopGame[1], LoopGame[2], LoopGame[3])
  /\ ev = NoEvent
  /\ rng = NoRng
  /\ \E a \in LoopArrMs :
        call = [fn |-> "step", arrMs |-> a, repeatAccum |-> 0, repeat |-> 0,
                drop |-> 0, fallAccum |-> 0, fall |-> 0]

Loop(in, dtMs) ==
  /\ state.tick < MaxLoops
  /\ state' = step(state, in, dtMs, [DEFAULT_PARAMS EXCEPT !.arrMs = call.arrMs])
  /\ ev' = stepEvent(state, in, dtMs, [DEFAULT_PARAMS EXCEPT !.arrMs = call.arrMs])
  /\ call' = LoopCounts(state, in, dtMs, [DEFAULT_PARAMS EXCEPT !.arrMs = call.arrMs])
  /\ UNCHANGED rng

NextLoop == \E in \in LoopInputs, dtMs \in LoopDt : Loop(in, dtMs)

SpecLoop == InitLoop /\ [][NextLoop]_vars

----------------------------------------------------------------------------
(* A game whose host calls step once a frame, with elapsed time and with   *)
(* no intent or a rotation, until the game is over.  step only increments  *)
(* state.tick and never reads it: here tick is not counted (it stays 0),   *)
(* so that a game whose board, piece, queue and timers recur is a cycle of *)
(* states.  call holds the parity of the host's frame counter              *)

SpinGame == <<4, 5, Word(10, 4558)>>

SpinInputs == {InputsOf({}), InputsOf({"rotCW"})}

SpinDt == {125, 250}

InitSpin ==
  /\ state = createGame(SpinGame[1], SpinGame[2], SpinGame[3])
  /\ ev = NoEvent
  /\ rng = NoRng
  /\ call = [fn |-> "update", frame |-> 0]

\* the host's loop runs one more frame while the game is not over
Frame ==
  /\ ~state.gameOver
  /\ call' = [call EXCEPT !.frame = 1 - @]

\* a frame calls step once
Spin(in, dtMs) ==
  /\ Frame
  /\ state' = [step(state, in, dtMs, DEFAULT_PARAMS) EXCEPT !.tick = 0]
  /\ ev' = stepEvent(state, in, dtMs, DEFAULT_PARAMS)
  /\ UNCHANGED rng

NextSpin == \E in \in SpinInputs, dtMs \in SpinDt : Spin(in, dtMs)

\* requestAnimationFrame schedules the loop again after every frame
SpecSpin == InitSpin /\ [][NextSpin]_vars /\ WF_call(Frame)

----------------------------------------------------------------------------
(* A game left alone: the host calls step once a frame with every intent   *)
(* false and the same elapsed time, until the game is over or step has     *)
(* thrown.  call holds the elapsed time of the run and the parity of the   *)
(* host's frame counter; ev.kind is "throw" once spawnNext has thrown      *)

IdleGames ==
  {<<10, 20, XorW(Word(24172, 64743), Golden)>>,
   <<4, 5, Word(10, 4558)>>,
   <<10, 6, Word(0, 1234)>>}

IdleDt == {125, 250, 500}

InitIdle ==
  /\ \E game \in IdleGames, dtMs \in IdleDt :
        /\ state = createGame(game[1], game[2], game[3])
        /\ call = [fn |-> "update", frame |-> 0, dtMs |-> dtMs]
  /\ ev = NoEvent
  /\ rng = NoRng

\* the host's loop runs one more frame: the game is not over and no call of
\* step has thrown (an exception leaves loop before it is scheduled again)
IdleFrame ==
  /\ ev.kind # "throw"
  /\ Frame

\* step with no intent, r being the outcome of its gravity loop; when the
\* loop locks the piece and the queue hands spawnNext an undefined entry,
\* lockAndClear is left by the TypeError: the piece is on the board, no piece
\* is active and fallAccum keeps its value
IdleAt(dtMs, r) ==
  /\ IdleFrame
  /\ IF r.ret /\ ~topOut(r.st)
        /\ Head(ensureNext(lockClear(r.st)).next) = "undefined"
     THEN /\ state' = [spawnNextThrown(lockClear(r.st)) EXCEPT !.tick = 0]
          /\ ev' = [NoEvent EXCEPT !.kind = "throw", !.dtMs = dtMs,
                                   !.piece = TRUE,
                                   !.lockedPiece = r.st.active]
     ELSE /\ state' = [step(state, InputsOf({}), dtMs, DEFAULT_PARAMS)
                         EXCEPT !.tick = 0]
          /\ ev' = stepEvent(state, InputsOf({}), dtMs, DEFAULT_PARAMS)
  /\ UNCHANGED rng

Idle(dtMs) ==
  IdleAt(dtMs,
         gravityLoop(addGravity(stepInputs(state, InputsOf({}), dtMs,
                                           DEFAULT_PARAMS),
                                InputsOf({}), dtMs, DEFAULT_PARAMS),
                     InputsOf({}), dtMs, DEFAULT_PARAMS, 0))

NextIdle == Idle(call.dtMs)

\* requestAnimationFrame schedules the loop again after every frame
SpecIdle == InitIdle /\ [][NextIdle]_vars /\ WF_call(IdleFrame)

----------------------------------------------------------------------------
(* tryRotate of logic.ts and the kick resolver of srs.ts on the same       *)
(* board, piece and direction.  The boards have TurnW columns, TurnH rows  *)
(* and at most MaxFilled occupied cells; the pieces are of every type and  *)
(* rotation, at the columns and rows of TurnXs and TurnYs, on and off the  *)
(* board.  state is the game after tryRotate; call holds the piece before  *)
(* the call and what the resolver returned                                 *)

TurnW == 4

TurnH == 4

MaxFilled == 2

TurnCells == (0..(TurnW - 1)) \X (0..(TurnH - 1))

TurnBoards == {F \in SUBSET TurnCells : Cardinality(F) <= MaxFilled}

TurnXs == (-1)..(TurnW - 1)

TurnYs == (-1)..(TurnH - 1)

TurnPieces == [type : Types, rot : 0..3, x : TurnXs, y : TurnYs]

TurnBase == createGame(TurnW, TurnH - HIDDEN_ROWS, Word(0, 1234))

\* a game whose board has the cells of F occupied and whose active piece is p
turnGame(F, p) ==
  [TurnBase EXCEPT
     !.board = [r \in 1..TurnH |->
                  [c \in 1..TurnW |-> IF <<c - 1, r - 1>> \in F THEN 1 ELSE 0]],
     !.active = p]

\* (rot, dx, dy) => !collides(state, {...state.active, rot, x + dx, y + dy}),
\* for the rotation rot the resolver asks about
collisionTest(s, rot) ==
  [rots |-> {rot},
   offsets |-> {k \in {srsKicks[i] : i \in 1..Len(srsKicks)} :
                  ~collides(s, [s.active EXCEPT !.rot = rot, !.x = @ + k[1],
                                                !.y = @ + k[2]])}]

\* the resolver asked to turn the active piece of s
resolveTurn(s, dir) ==
  tryRotateWithKicks(collisionTest(s, Mod4(s.active.rot + dir)),
                     s.active.rot, dir)

InitTurn ==
  /\ call = NoCall
  /\ state = NoGame /\ ev = NoEvent /\ rng = NoRng

\* tryRotate(s, dir), with the piece p that was active
TurnOn(s, p, dir) ==
  /\ call = NoCall
  /\ state' = tryRotate(s, dir)
  /\ call' = [fn |-> "tryRotate", dir |-> dir, piece |-> p,
              resolved |-> resolveTurn(s, dir)]
  /\ UNCHANGED <<ev, rng>>

Turn(F, p, dir) == TurnOn(turnGame(F, p), p, dir)

\* one call on a fresh game
NextTurn ==
  /\ call = NoCall
  /\ \E F \in TurnBoards, p \in TurnPieces, dir \in KickDirs : Turn(F, p, dir)

SpecTurn == InitTurn /\ [][NextTurn]_vars

----------------------------------------------------------------------------
(* Properties                                                              *)

Occupied(s, c) ==
  /\ c[1] >= 0 /\ c[1] < s.boardW /\ c[2] >= 0 /\ c[2] < s.boardH
  /\ s.board[c[2] + 1][c[1] + 1] # 0

BoardEmpty(s) == \A r \in 1..s.boardH : \A c \in 1..s.boardW : s.board[r][c] = 0

\* C1: once gameOver is true, every later call of step leaves the board, the
\* (absent) active piece, score, lines and level unchanged.
C1_FrozenAfterGameOver ==
  [][state.gameOver =>
       /\ state'.board = state.board
       /\ state.active = null /\ state'.active = null
       /\ state'.score = state.score
       /\ state'.lines = state.lines
       /\ state'.level = state.level]_vars

\* C2: whenever a piece is active, none of its cells lies outside [0, boardW)
\* horizontally, at or below row boardH, or on an occupied cell at row >= 0.
C2_CollisionContainment ==
  state.active # null =>
    \A c \in PieceCells(state.active) :
       /\ c[1] >= 0 /\ c[1] < state.boardW
       /\ c[2] < state.boardH
       /\ (c[2] >= 0 => state.board[c[2] + 1][c[1] + 1] = 0)

\* a rotated, shifted piece resting on locked cells
C2_Witness ==
  /\ state.active # null
  /\ state.active.rot # 0
  /\ grounded(state)
  /\ ~BoardEmpty(state)
  /\ \E c \in PieceCells(state.active) : Occupied(state, <<c[1], c[2] + 1>>)

\* C3: a spawn whose piece collides at its spawn position sets gameOver, leaves
\* no active piece and leaves every board cell as it was before the spawn; a
\* spawn that does not collide leaves gameOver as it was.
C3_SpawnCollision ==
  [][/\ ev'.spawn = "collide" =>
          /\ state'.gameOver
          /\ state'.active = null
          /\ state'.board = ev'.spawnBoard
     /\ ev'.spawn = "ok" =>
          /\ state'.gameOver = state.gameOver
          /\ state'.active # null]_vars

\* a lock whose following spawn collided, on a board that holds locked cells
C3_Witness ==
  /\ ev.spawn = "collide"
  /\ ev.lockedPiece # null
  /\ state.gameOver /\ state.active = null
  /\ ~BoardEmpty(state)

\* the four DAS/ARR timers
DasTimers(s) == <<s.dasLeftMs, s.arrLeftMs, s.dasRightMs, s.arrRightMs>>

\* C5: while left or right alone is held on a piece that is never blocked,
\* the piece moves once in the first step of the press, not again while the
\* time held since is below dasMs = 160, and from then on at most once per
\* arrMs = 30 of time held beyond 160 (the move at the threshold included).
C5_DasArrTiming ==
  (ev.press.dir # 0 /\ ~ev.press.blocked) =>
     /\ ev.press.moves >= 1
     /\ ev.press.first => ev.press.moves = 1
     /\ ev.press.heldMs < DEFAULT_PARAMS.dasMs => ev.press.moves = 1
     /\ ev.press.heldMs >= DEFAULT_PARAMS.dasMs =>
          ev.press.moves - 1
            <= 1 + (ev.press.heldMs - DEFAULT_PARAMS.dasMs) \div DEFAULT_PARAMS.arrMs

\* C6: a successful downward, leftward or rightward move of the active piece
\* made while it is grounded with the lock timer running resets lockTimerMs to
\* 0 (the step's own elapsed time may then be added again by the gravity loop).
C6_MoveResetsLockTimer ==
  [][(/\ grounded(state) /\ state.lockTimerMs > 0
      /\ ev'.kind = "plain" /\ ~ev'.rotated
      /\ state'.active # state.active)
     => state'.lockTimerMs \in {0, ev'.dtMs}]_vars

C8_IdleStepChangesNothing ==
  [][ev'.idle => state' = [state EXCEPT !.tick = @ + 1]]_vars

\* the piece is absent, or grounded, or the gravity accumulator is below a cell
Settled(s) == s.active = null \/ grounded(s) \/ s.fallAccum < FallUnit

\* C8 amended: such a step leaves board, score, lines, level, queue and
\* gameOver unchanged; with a piece active it sets the four DAS/ARR timers to
\* 0 (the keys are released); when the piece is absent or grounded or the
\* gravity accumulator is below one cell, it leaves the piece, the accumulator
\* and the lock timer unchanged; otherwise the piece descends by one cell per
\* whole cell of the accumulator until it is grounded, the accumulator loses
\* the cells descended and the lock timer is 0. So from a settled state with
\* zero DAS/ARR timers it changes only tick.
C8_IdleStep ==
  [][ev'.idle =>
       /\ state'.tick = state.tick + 1
       /\ state'.board = state.board
       /\ state'.score = state.score
       /\ state'.lines = state.lines
       /\ state'.level = state.level
       /\ state'.next = state.next
       /\ state'.gameOver = state.gameOver
       /\ DasTimers(state') =
            IF state.active = null THEN DasTimers(state) ELSE <<0, 0, 0, 0>>
       /\ Settled(state) =>
            /\ state'.active = state.active
            /\ state'.fallAccum = state.fallAccum
            /\ state'.lockTimerMs = state.lockTimerMs
       /\ ~Settled(state) =>
            \E m \in 1..(state.fallAccum \div FallUnit) :
               /\ state'.active = [state.active EXCEPT !.y = @ + m]
               /\ state'.fallAccum = state.fallAccum - m * FallUnit
               /\ state'.lockTimerMs = 0
               /\ state'.fallAccum < FallUnit \/ grounded(state')
       /\ (Settled(state) /\ DasTimers(state) = <<0, 0, 0, 0>>) =>
            state' = [state EXCEPT !.tick = @ + 1]]_vars

\* an idle step on a grounded piece whose lock timer is running and whose
\* accumulator holds a cell
C8_Witness ==
  /\ ev.idle
  /\ state.active # null /\ grounded(state)
  /\ state.lockTimerMs > 0
  /\ state.fallAccum >= FallUnit

\* an idle step in which the piece descended
C8_FallWitness ==
  /\ ev.idle
  /\ state.active # null
  /\ state.active.y > SpawnPiece(state).y
  /\ state.lockTimerMs = 0

\* C4: a step with hardDrop set and a piece active moves the piece, as the
\* rotations and the horizontal handling left it, straight down to the lowest
\* free position, locks it there in the same step, adds 2 x (cells descended)
\* plus the line-clear score of the lock to score (10 for 5 cells and no
\* line), spawns the next piece or ends the game, and leaves the gravity
\* accumulator as it was.
C4_HardDrop ==
  [][(ev'.hardDrop /\ state.active # null) =>
       LET from == ev'.dropFrom
           n == ev'.dropped
           landed == [from EXCEPT !.y = @ + n]
           locked == lockToBoard(state, landed)
           rows == fullRows(locked)
       IN /\ ev'.kind = "hardDrop"
          /\ from.type = state.active.type
          /\ n >= 0
          /\ \A k \in 0..n : ~collides(state, [from EXCEPT !.y = @ + k])
          /\ collides(state, [landed EXCEPT !.y = @ + 1])
          /\ ev'.lockedPiece = landed
          /\ ev'.cleared = Len(rows)
          /\ ev'.spawnBoard = clearRows(locked, rows).board
          /\ state'.board = ev'.spawnBoard
          /\ state'.score = state.score + 2 * n
                              + lineClearScore(Len(rows), state.level)
          /\ (n = 5 /\ Len(rows) = 0) => state'.score = state.score + 10
          /\ \/ ev'.spawn = "ok" /\ state'.active # null
             \/ ev'.spawn = "collide" /\ state'.active = null /\ state'.gameOver
          /\ state'.fallAccum = state.fallAccum]_vars

\* a hard drop of 5 cells that clears no line, in a step with elapsed time
C4_Witness ==
  /\ ev.kind = "hardDrop"
  /\ ev.dropped = 5
  /\ ev.cleared = 0
  /\ ev.dtMs > 0
  /\ state.score = 10
  /\ Occupied(state, <<ev.lockedPiece.x, state.boardH - 1>>)

\* C9: after createGame and after every step, level = floor(lines / 5): level
\* is 0 while lines < 5 and is 1 in the state in which lines reaches 5.
C9_LevelFromLines ==
  /\ state.level = state.lines \div 5
  /\ state.level = levelUp(state.lines)

\* the fifth line, cleared by a single-line clear in a game that is not over
C9_Witness ==
  /\ state.lines = 5
  /\ state.level = 1
  /\ ev.cleared = 1
  /\ ~state.gameOver

\* C10: a lock that finds k >= 1 full rows clears them, adds k to lines, adds
\* lineClearScore(k, L) to score where L is the level before the lock, and
\* then recomputes level; a lock that finds none changes none of lines, score
\* and level (beyond the hard-drop points of the step); in both cases the
\* next piece is spawned.
C10_LockScoring ==
  [][ev'.lockedPiece # null =>
       LET k == ev'.cleared
           locked == lockToBoard(state, ev'.lockedPiece)
       IN /\ k = Len(fullRows(locked))
          /\ ev'.spawnBoard = clearRows(locked, fullRows(locked)).board
          /\ state'.lines = state.lines + k
          /\ state'.score = state.score + 2 * ev'.dropped
                              + (IF k >= 1 THEN lineClearScore(k, state.level) ELSE 0)
          /\ state'.level = levelUp(state.lines + k)
          /\ k = 0 => state'.level = state.level
          /\ ev'.spawn # "none"
          /\ state'.board = ev'.spawnBoard]_vars

\* a lock that clears a row and raises the level
C10_Witness ==
  /\ ev.lockedPiece # null
  /\ ev.cleared >= 1
  /\ state.lines = 5
  /\ state.level = 1
  /\ ev.spawn = "ok"

\* the word 0xffffffff, the divisor of next()
AllOnes == <<Half - 1, Half - 1>>

Instances == {"a", "b"}

\* C11: every array generateBag returns has length 7 and holds each of the 7
\* piece types once, with no undefined entry.
C11_BagIsPermutation ==
  \A i \in Instances :
     rng[i].bag # <<>> =>
        /\ Len(rng[i].bag) = 7
        /\ {rng[i].bag[k] : k \in 1..Len(rng[i].bag)} = {ALL[k] : k \in 1..Len(ALL)}

\* C12: every value u / 0xffffffff that next() returns is below 1, so that
\* floor(value * n) is an index below n for every n of the shuffle.
C12_NextBelowOne ==
  \A i \in Instances :
     rng[i].value # NoValue =>
        /\ rng[i].value # AllOnes
        /\ \A n \in 1..Len(ALL) : ScaleIndex(rng[i].value, n) \in 0..(n - 1)

\* C13: two instances constructed with the same seed, or one with 0 and the
\* other with 0x9e3779b9, hold the same state and have returned the same
\* value whenever they have made the same number of draws; the state of an
\* instance is never 0.
C13_Determinism ==
  /\ (/\ \/ rng.a.arg = rng.b.arg
         \/ {rng.a.arg, rng.b.arg} = {Zero32, Golden}
      /\ rng.a.draws = rng.b.draws)
       => /\ rng.a.seed = rng.b.seed
          /\ rng.a.value = rng.b.value
  /\ \A i \in Instances : rng[i].seed # Zero32

\* an instance constructed with 0 and one constructed with 0x9e3779b9, after
\* the same draws
C13_Witness ==
  /\ rng.a.arg = Zero32 /\ rng.b.arg = Golden
  /\ rng.a.draws = rng.b.draws /\ rng.a.draws >= 2
  /\ rng.a.value = rng.b.value /\ rng.a.value # NoValue

\* the piece p and the pieces one cell from it in every direction
Around(p) ==
  {[p EXCEPT !.x = @ + dx, !.y = @ + dy] : dx \in {-1, 0, 1}, dy \in {-1, 0, 1}}

\* C14: collides(state, piece) is true iff some cell of the piece is outside
\* [0, width) horizontally, or at or below row height, or on an occupied
\* cell; a cell with negative row does not by itself make the piece collide.
C14_CollidesIff ==
  state.active # null =>
     \A p \in Around(state.active) :
        collides(state, p) <=>
           \E c \in PieceCells(p) :
              \/ c[1] < 0
              \/ c[1] >= state.boardW
              \/ c[2] >= state.boardH
              \/ Occupied(state, c)

\* the cells of the board of s, and those that are occupied
BoardCells(s) == (0..(s.boardW - 1)) \X (0..(s.boardH - 1))

OccupiedCells(s) == {c \in BoardCells(s) : Occupied(s, c)}

\* C15: lockToBoard(state, piece) occupies exactly the piece's cells that lie
\* on the board (none with negative row) and changes no other cell, clearing
\* none; the board changes only in a step that locks a piece, and then by
\* the 4 cells of the locked piece less the rows cleared, so every occupied
\* cell is a cell of a piece locked earlier.
C15_LockFrame ==
  [][/\ state.active # null =>
          \A p \in Around(state.active) :
             LET t == lockToBoard(state, p)
             IN /\ OccupiedCells(t)
                     = OccupiedCells(state) \cup (PieceCells(p) \cap BoardCells(state))
                /\ t.boardW = state.boardW /\ t.boardH = state.boardH
                /\ Len(t.board) = state.boardH
                /\ \A y \in 1..state.boardH : Len(t.board[y]) = state.boardW
     /\ ev'.lockedPiece = null => state'.board = state.board
     /\ ev'.lockedPiece # null =>
          /\ PieceCells(ev'.lockedPiece) \cap OccupiedCells(state) = {}
          /\ Cardinality(OccupiedCells(state'))
               = Cardinality(OccupiedCells(state)) + 4 - ev'.cleared * state.boardW]_vars

\* a lock that cleared no row, onto a board that already held a locked piece
C15_Witness ==
  /\ ev.lockedPiece # null
  /\ ev.cleared = 0
  /\ Cardinality(OccupiedCells(state)) >= 8

\* the rows of board b, top to bottom, that have an empty cell
NonFullRows(b) == SelectSeq(b, LAMBDA row : \E c \in 1..Len(row) : row[c] = 0)

\* C16: fullRows returns in ascending order exactly the indices of the rows
\* with every column occupied; after clearRows of these k rows the board has
\* boardH rows of boardW cells, its top k rows are empty and the rows below
\* are the rows that were not full, in their order, whether the full rows
\* are adjacent or apart.
C16_RowClearing ==
  call.fn = "clearRows" =>
     LET b == call.s
         rows == call.rows
         k == Len(rows)
     IN /\ \A i \in 1..(k - 1) : rows[i] < rows[i + 1]
        /\ {rows[i] : i \in 1..k}
             = {y \in 0..(b.boardH - 1) : \A x \in 0..(b.boardW - 1) : Occupied(b, <<x, y>>)}
        /\ Len(call.out) = b.boardH
        /\ \A y \in 1..b.boardH : Len(call.out[y]) = b.boardW
        /\ \A y \in 1..k : \A x \in 1..b.boardW : call.out[y][x] = 0
        /\ SubSeq(call.out, k + 1, b.boardH) = NonFullRows(b.board)

\* two full rows apart, with a row that is not full and not empty between
\* them, cleared at once
C16_Witness ==
  /\ call.fn = "clearRows"
  /\ call.rows = <<1, 3>>
  /\ call.s.board[3] # call.s.board[1]
  /\ call.out[4] = call.s.board[3]
  /\ call.out[4] # EmptyRow(call.s.boardW)

\* C17: tryRotateWithKicks takes the target rotation (rotFrom + dir) mod 4
\* and returns ok with the first of (0,0), (+1,0), (-1,0), (0,-1), (0,+1)
\* that the test accepts for it; when the test accepts none it returns
\* ok = false, rot = rotFrom, dx = dy = 0.
C17_KickOrder ==
  call.fn = "tryRotateWithKicks" =>
     LET order == << <<0, 0>>, <<1, 0>>, <<-1, 0>>, <<0, -1>>, <<0, 1>> >>
         rot == (call.rotFrom + call.dir) % 4
         accepted == {i \in 1..5 : /\ rot \in call.test.rots
                                   /\ order[i] \in call.test.offsets}
     IN IF accepted = {}
        THEN call.result = [ok |-> FALSE, rot |-> call.rotFrom, dx |-> 0, dy |-> 0]
        ELSE LET i == CHOOSE j \in accepted : \A m \in accepted : j <= m
             IN call.result =
                  [ok |-> TRUE, rot |-> rot, dx |-> order[i][1], dy |-> order[i][2]]

\* a counter-clockwise rotation from 0 whose test rejects the origin and the
\* kick to the right and accepts the kick to the left and the kick up
C17_Witness ==
  /\ call.fn = "tryRotateWithKicks"
  /\ call.rotFrom = 0 /\ call.dir = -1
  /\ 3 \in call.test.rots
  /\ call.test.offsets = {<<-1, 0>>, <<0, -1>>}
  /\ call.result = [ok |-> TRUE, rot |-> 3, dx |-> -1, dy |-> 0]

\* the moves step asks of tryMove: left, right, down
MoveDirs == {<<-1, 0>>, <<1, 0>>, <<0, 1>>}

\* the five candidates of a rotation: the rotated piece in place, then one
\* cell right, left, up, down
RotationCandidates(p, dir) ==
  LET n == [p EXCEPT !.rot = (@ + dir) % 4]
  IN {[n EXCEPT !.x = @ + k[1], !.y = @ + k[2]] :
        k \in {<<0, 0>>, <<1, 0>>, <<-1, 0>>, <<0, -1>>, <<0, 1>>}}

AllCandidatesCollide(s, dir) ==
  \A c \in RotationCandidates(s.active, dir) : collides(s, c)

\* C18: a move left, right or down whose target collides returns false and
\* changes nothing, and a rotation whose five candidates all collide changes
\* nothing: piece, board, score, lines and gameOver are as before.
C18_RejectedSilent ==
  state.active # null =>
     /\ \A d \in MoveDirs :
           collides(state, [state.active EXCEPT !.x = @ + d[1], !.y = @ + d[2]])
             => /\ tryMove(state, d[1], d[2]) = state
                /\ ~tryMoveOk(state, d[1], d[2])
     /\ \A dir \in {1, -1} :
           AllCandidatesCollide(state, dir) => tryRotate(state, dir) = state

\* a piece resting on locked cells (not only the floor or a wall) that can
\* turn neither way
C18_Witness ==
  /\ state.active # null
  /\ ~BoardEmpty(state)
  /\ AllCandidatesCollide(state, 1)
  /\ AllCandidatesCollide(state, -1)
  /\ collides(state, [state.active EXCEPT !.y = @ + 1])
  /\ ~state.gameOver

\* the columns a piece type spans in rotation 0
WidthOf(type) ==
  LET xs == {shapeCells(type, 0)[i][1] : i \in 1..4}
  IN 1 + CHOOSE m \in xs : \A x \in xs : x <= m

\* C19: a spawn takes the head of the upcoming queue and leaves the rest in
\* order; when the piece does not collide it becomes the active piece with
\* rotation 0, column floor((boardW - pieceWidth) / 2) and its top cells on
\* row 0, lockTimerMs is 0 and canHold is true.
C19_Spawn ==
  [][ev'.spawn # "none" =>
       LET type == Head(state.next)
           rest == Tail(state.next)
       IN /\ Len(state'.next) >= Len(rest)
          /\ SubSeq(state'.next, 1, Len(rest)) = rest
          /\ ev'.spawn = "ok" =>
               /\ state'.active.type = type
               /\ state'.active.rot = 0
               /\ 2 * state'.active.x <= state.boardW - WidthOf(type)
               /\ 2 * state'.active.x + 1 >= state.boardW - WidthOf(type)
               /\ state'.active.y = 0
               /\ \E c \in PieceCells(state'.active) : c[2] = 0
               /\ \A c \in PieceCells(state'.active) : c[2] >= 0
               /\ state'.lockTimerMs = 0
               /\ state'.canHold
          /\ ev'.spawn = "collide" => state'.active = null]_vars

\* a piece three columns wide spawned on the four-column board after a lock
C19_Witness ==
  /\ ev.spawn = "ok"
  /\ ev.lockedPiece # null
  /\ state.active # null
  /\ WidthOf(state.active.type) = 3
  /\ state.active.x = 0
  /\ state.boardW = 4

\* C20: the queue changes only at a spawn; a spawn takes the head (the queue
\* is not empty), keeps the rest in order and, iff the queue held fewer than
\* 7 types, appends a fresh bag of the 7 types at the tail; the length of
\* the queue stays within 6..12.
C20_QueueFifo ==
  [][/\ ev'.spawn = "none" => state'.next = state.next
     /\ ev'.spawn # "none" =>
          LET rest == Tail(state.next)
              added == SubSeq(state'.next, Len(rest) + 1, Len(state'.next))
          IN /\ state.next # <<>>
             /\ ev'.spawn = "ok" => state'.active.type = Head(state.next)
             /\ Len(state'.next) >= Len(rest)
             /\ SubSeq(state'.next, 1, Len(rest)) = rest
             /\ IF Len(state.next) < 7
                THEN /\ Len(added) = 7
                     /\ {added[i] : i \in 1..Len(added)} = {ALL[i] : i \in 1..Len(ALL)}
                ELSE added = <<>>
     /\ Len(state.next) \in 6..12
     /\ Len(state'.next) \in 6..12]_vars

\* C21: createGame(width, height, seed) with width >= 4 and height >= 2
\* returns a state whose board has height + HIDDEN_ROWS rows of width cells,
\* all empty, with score = lines = level = 0, gameOver false, every timer
\* 0, and the first piece of the bag drawn for the seed active in rotation
\* 0 at column floor((width - pieceWidth) / 2), row 0, the rest of the bag
\* being the queue; two calls with equal arguments return equal states.
C21_CreateGame ==
  call.fn = "createGame" =>
     /\ \A i \in Instances :
           LET c == call[i]
               s == c.out
               bag == generateBag(RNGInit(XorW(c.seed, Golden)))
           IN /\ c.boardW >= 4 /\ c.boardH >= 2
              /\ s.boardW = c.boardW
              /\ s.boardH = c.boardH + 1
              /\ Len(s.board) = c.boardH + 1
              /\ \A y \in 1..Len(s.board) :
                    /\ Len(s.board[y]) = c.boardW
                    /\ \A x \in 1..c.boardW : s.board[y][x] = 0
              /\ s.score = 0 /\ s.lines = 0 /\ s.level = 0
              /\ ~s.gameOver
              /\ s.tick = 0
              /\ s.fallAccum = 0 /\ s.lockTimerMs = 0
              /\ DasTimers(s) = <<0, 0, 0, 0>>
              /\ s.active # null
              /\ s.active.type = bag[1]
              /\ s.active.rot = 0 /\ s.active.y = 0
              /\ 2 * s.active.x <= c.boardW - WidthOf(bag[1])
              /\ 2 * s.active.x + 1 >= c.boardW - WidthOf(bag[1])
              /\ ~collides(s, s.active)
              /\ s.next = Tail(bag)
     /\ (/\ call.a.boardW = call.b.boardW
         /\ call.a.boardH = call.b.boardH
         /\ call.a.seed = call.b.seed) => call.a.out = call.b.out

\* two calls with the default size and seed: the Z piece of the bag of
\* 1234 xor 0x9e3779b9 centred on a board of 21 rows
C21_Witness ==
  /\ call.fn = "createGame"
  /\ call.a.boardW = 10 /\ call.a.boardH = 20 /\ call.a.seed = Word(0, 1234)
  /\ call.b.boardW = 10 /\ call.b.boardH = 20 /\ call.b.seed = Word(0, 1234)
  /\ Len(call.a.out.board) = 21
  /\ call.a.out.active.x = 3
  /\ call.a.out = call.b.out

\* C22: no call of step changes gameOver from true to false; the state
\* createGame returns, before any step, has gameOver false.
C22_GameOverTerminal ==
  [][/\ state.gameOver => state'.gameOver
     /\ state.tick = 0 => ~state.gameOver]_vars

\* a game that is over in which a later respawn put a piece in play
C22_Witness ==
  /\ state.gameOver
  /\ ev.kind = "respawn" /\ ev.spawn = "ok"
  /\ state.active # null

\* some cell of piece p lies on a negative row, above the playfield
AboveBoard(p) == p # null /\ \E c \in PieceCells(p) : c[2] < 0

\* piece p has a cell outside [0, boardW), at or below row boardH, or on an
\* occupied cell; a cell on a negative row does not count
Blocked(s, p) ==
  \E c \in PieceCells(p) :
     c[1] < 0 \/ c[1] >= s.boardW \/ c[2] >= s.boardH \/ Occupied(s, c)

\* of the candidates of a rotation, the piece turned in place, one cell right
\* and one cell left are blocked and the piece one cell up is not
OnlyUpKickFree(s, dir) ==
  LET n == [s.active EXCEPT !.rot = (@ + dir + 4) % 4]
  IN /\ Blocked(s, n)
     /\ Blocked(s, [n EXCEPT !.x = @ + 1])
     /\ Blocked(s, [n EXCEPT !.x = @ - 1])
     /\ ~Blocked(s, [n EXCEPT !.y = @ - 1])

\* C23: a lock of a piece with a cell on a negative row is reachable: a
\* rotation whose first free candidate is the kick one cell up places the
\* piece there also when this leaves a cell above row 0 (the only way a
\* piece rises), from where it locks; and a lock of a piece with a cell on a
\* negative row sets gameOver and leaves no active piece, with no line
\* clear, no scoring and no spawn in that step.
C23_TopOutAtLock ==
  [][/\ state.active # null =>
          \A dir \in {1, -1} :
             OnlyUpKickFree(state, dir) =>
                tryRotate(state, dir).active
                  = [state.active EXCEPT !.rot = (@ + dir + 4) % 4, !.y = @ - 1]
     /\ AboveBoard(ev'.lockedPiece) =>
          /\ state'.gameOver /\ state'.active = null
          /\ ev'.spawn = "none"
          /\ state'.lines = state.lines
          /\ state'.score = state.score + 2 * ev'.dropped
          /\ state'.next = state.next]_vars

\* C23, what the code does instead: no active piece and no locked piece ever
\* has a cell on a negative row, and a step that ends the game does so at a
\* spawn that collided.
C23_NoCellAboveBoard ==
  [][/\ ~AboveBoard(state'.active)
     /\ ~AboveBoard(ev'.lockedPiece)
     /\ (~state.gameOver /\ state'.gameOver) => ev'.spawn = "collide"]_vars

\* the active piece is the head of queue q at the spawn position of board s
SpawnedFrom(s, q) ==
  /\ s.active # null
  /\ s.active.type = Head(q)
  /\ s.active.rot = 0 /\ s.active.y = 0
  /\ 2 * s.active.x <= s.boardW - WidthOf(Head(q))
  /\ 2 * s.active.x + 1 >= s.boardW - WidthOf(Head(q))

\* C24 as claimed: in every step with the respawn intent set, also one in
\* which hardDrop is set or the lock delay expires, the active piece is
\* discarded without being locked (the board is as before) and the next
\* piece of the queue is spawned.
C24_RespawnAlwaysDiscards ==
  [][ev'.respawn =>
       /\ ev'.lockedPiece = null
       /\ state'.board = state.board
       /\ ev'.spawn # "none"
       /\ ev'.spawn = "ok" => SpawnedFrom(state', state.next)]_vars

\* C24 amended: a step with the respawn intent set that neither hard-drops
\* a piece nor locks one at the expiry of the lock delay discards the active
\* piece without locking it (board, lines and level are as before) and
\* spawns the head of the queue, whether the piece was falling or grounded
\* with the lock timer running; a step that hard-drops or locks at expiry
\* returns before it reads the intent: the piece is locked and the only
\* spawn of the step is the one that follows the lock.
C24_Respawn ==
  [][ev'.respawn =>
       IF (ev'.hardDrop /\ state.active # null) \/ ev'.kind = "gravityLock"
       THEN /\ ev'.kind \in {"hardDrop", "gravityLock"}
            /\ ev'.lockedPiece # null
            /\ ev'.lockedPiece.type = state.active.type
            /\ Cardinality(OccupiedCells(state'))
                 = Cardinality(OccupiedCells(state)) + 4 - ev'.cleared * state.boardW
            /\ Len(state'.next) + 1 \in {Len(state.next), Len(state.next) + 7}
       ELSE /\ ev'.kind = "respawn"
            /\ ev'.lockedPiece = null
            /\ state'.board = state.board
            /\ state'.lines = state.lines /\ state'.level = state.level
            /\ ev'.spawn # "none"
            /\ SubSeq(state'.next, 1, Len(state.next) - 1) = Tail(state.next)
            /\ ev'.spawn = "ok" =>
                 /\ SpawnedFrom(state', state.next)
                 /\ state'.lockTimerMs = 0
                 /\ state'.gameOver = state.gameOver
            /\ ev'.spawn = "collide" =>
                 state'.active = null /\ state'.gameOver]_vars

\* a piece grounded with the lock timer running, discarded by a respawn
\* that put the next piece in play
C24_Witness ==
  /\ ev.respawn /\ ev.kind = "respawn"
  /\ ev.spawn = "ok"
  /\ ev.accum >= FallUnit /\ ev.fell = 0
  /\ BoardEmpty(state)
  /\ state.tick >= 2

\* a step with the respawn intent set in which the lock delay expired
C24_LockWitness ==
  /\ ev.respawn /\ ev.kind = "gravityLock"
  /\ ev.lockedPiece # null
  /\ ~BoardEmpty(state)

\* the line-clear score of the lock of a step, 0 when no row was cleared
ClearScore(e, level) ==
  IF e.cleared >= 1 THEN lineClearScore(e.cleared, level) ELSE 0

\* C25: in a step without hard drop, every cell the piece descends under
\* gravity adds 1 to score when softDrop is held and nothing when it is
\* not, also in a step in which the piece, after descending, locks (the
\* line-clear score of that lock comes on top).
C25_SoftDropScore ==
  [][ev'.kind # "hardDrop" =>
       state'.score = state.score
                        + (IF ev'.softDrop THEN ev'.fell ELSE 0)
                        + ClearScore(ev', state.level)]_vars

\* C25 for the steps that do not both descend and lock: the same equation.
C25_SoftDropScoreNoLock ==
  [][(ev'.kind # "hardDrop" /\ ~(ev'.kind = "gravityLock" /\ ev'.fell > 0)) =>
       state'.score = state.score
                        + (IF ev'.softDrop THEN ev'.fell ELSE 0)
                        + ClearScore(ev', state.level)]_vars

\* a soft drop of several cells that did not lock, and scored them
C25_ScoredWitness ==
  /\ ev.softDrop /\ ev.kind = "plain"
  /\ ev.fell >= 2
  /\ state.score = ev.fell

\* the cells piece p can descend on board s before it is blocked
FreeFall(s, p) ==
  LET ok == {k \in 0..s.boardH :
               \A j \in 1..k : ~collides(s, [p EXCEPT !.y = @ + j])}
  IN CHOOSE k \in ok : \A j \in ok : j <= k

\* C26: in a step without hard drop (and without rotation or respawn) on an
\* active piece, the accumulator first grows by (1.5 + 0.5 x level, plus 15
\* with softDrop) x elapsedMs / 1000, here in sixteenths of a cell; the
\* piece then descends one cell per whole cell of the accumulator: when it
\* is not obstructed it descends exactly floor(accumulator) cells and the
\* fraction is carried; when it grounds first it descends the free cells
\* only, the cells not descended stay in the accumulator and, unless the
\* lock delay expires, the piece stays there with elapsedMs on the timer.
C26_GravityAccumulation ==
  [][(/\ state.active # null
      /\ ev'.kind \in {"plain", "gravityLock"}
      /\ ~ev'.rotated) =>
       LET speedX2 == 3 + state.level + (IF ev'.softDrop THEN 30 ELSE 0)
           acc == state.fallAccum + (speedX2 * ev'.dtMs * 8) \div 1000
           whole == acc \div 16
           landed == IF ev'.kind = "gravityLock" THEN ev'.lockedPiece
                     ELSE state'.active
           from == [landed EXCEPT !.y = state.active.y]
           free == FreeFall(state, from)
       IN /\ (speedX2 * ev'.dtMs * 8) % 1000 = 0
          /\ ev'.accum = acc
          /\ landed.y = state.active.y + ev'.fell
          /\ IF whole <= free
             THEN /\ ev'.fell = whole
                  /\ ev'.kind = "plain"
                  /\ state'.fallAccum = acc - 16 * whole
                  /\ state'.fallAccum < 16
                  /\ whole > 0 => state'.lockTimerMs = 0
             ELSE /\ ev'.fell = free
                  /\ LET timer == (IF free > 0 THEN 0 ELSE state.lockTimerMs)
                                    + ev'.dtMs
                     IN IF timer >= DEFAULT_PARAMS.lockDelayMs
                        THEN ev'.kind = "gravityLock" /\ state'.fallAccum = 0
                        ELSE /\ ev'.kind = "plain"
                             /\ state'.fallAccum = acc - 16 * free
                             /\ state'.fallAccum >= 16
                             /\ state'.lockTimerMs = timer]_vars

\* at level 1, a soft drop that descended and carried a fraction of a cell
C26_Witness ==
  /\ state.level = 1
  /\ ev.softDrop /\ ev.kind = "plain"
  /\ ev.fell >= 2
  /\ ev.accum = 16 * ev.fell + state.fallAccum
  /\ state.fallAccum \in 1..15

\* a piece that grounded with whole cells left in the accumulator
C26_GroundedWitness ==
  /\ ev.kind = "plain"
  /\ ev.fell >= 1
  /\ state.fallAccum >= 16
  /\ grounded(state)
  /\ state.lockTimerMs = ev.dtMs

\* the direction held alone in the call e records: +1 right, -1 left, 0 when
\* both or neither is held
DirOf(e) ==
  IF e.right /\ ~e.left THEN 1 ELSE IF e.left /\ ~e.right THEN -1 ELSE 0

\* the hold timer and the repeat accumulator of direction d
TimersOf(s, d) ==
  IF d = 1 THEN <<s.dasRightMs, s.arrRightMs>> ELSE <<s.dasLeftMs, s.arrLeftMs>>

\* a first press of direction d: one move of one cell when the cell is free,
\* none otherwise, and the hold timer of d started
FirstPress(s, t, e, d) ==
  /\ TimersOf(t, d) = <<1, 0>>
  /\ e.shift \in {0, d}
  /\ ~e.rotated =>
       e.shift = IF collides(s, [s.active EXCEPT !.x = @ + d]) THEN 0 ELSE d

\* C27 as claimed: in the first step in which one direction is held alone,
\* one immediate move in that direction is attempted and its hold timer
\* starts; while one direction is held alone the timers of the opposite
\* direction are 0; a step in which both or neither is held sets the four
\* timers to 0 and moves nothing - in every step.
C27_DasInEveryStep ==
  [][/\ (DirOf(ev') # 0 /\ DirOf(ev) # DirOf(ev')) =>
          /\ state.active # null
          /\ FirstPress(state, state', ev', DirOf(ev'))
     /\ DirOf(ev') # 0 => TimersOf(state', -DirOf(ev')) = <<0, 0>>
     /\ DirOf(ev') = 0 =>
          /\ DasTimers(state') = <<0, 0, 0, 0>>
          /\ ev'.shift = 0]_vars

\* C27 amended: the same in the steps that begin with a piece active, the
\* first step of a press being one whose previous step began with a piece
\* active (or the first step of the game) and did not hold that direction
\* alone; a later step of the press adds elapsedMs to the hold timer; a step
\* that begins with no active piece leaves the four timers as they are and
\* moves nothing.
C27_DasStates ==
  [][IF state.active = null
     THEN /\ DasTimers(state') = DasTimers(state)
          /\ ev'.shift = 0
     ELSE /\ (/\ DirOf(ev') # 0 /\ DirOf(ev) # DirOf(ev')
              /\ (ev.piece \/ ev.kind = "create")) =>
                FirstPress(state, state', ev', DirOf(ev'))
          /\ (/\ DirOf(ev') # 0 /\ DirOf(ev) = DirOf(ev') /\ ev.piece) =>
                TimersOf(state', DirOf(ev'))[1]
                  = TimersOf(state, DirOf(ev'))[1] + ev'.dtMs
          /\ DirOf(ev') # 0 => TimersOf(state', -DirOf(ev')) = <<0, 0>>
          /\ DirOf(ev') = 0 =>
               /\ DasTimers(state') = <<0, 0, 0, 0>>
               /\ ev'.shift = 0]_vars

\* a first press to the left, later than the first step of the game, that
\* moved the piece
C27_Witness ==
  /\ DirOf(ev) = -1
  /\ ev.shift = -1
  /\ state.active # null
  /\ TimersOf(state, -1) = <<1, 0>>
  /\ TimersOf(state, 1) = <<0, 0>>
  /\ state.tick >= 2

\* a step with both directions held on a piece that could move
C27_BothWitness ==
  /\ ev.left /\ ev.right /\ ev.piece
  /\ ev.shift = 0
  /\ DasTimers(state) = <<0, 0, 0, 0>>
  /\ state.active # null
  /\ ~collides(state, [state.active EXCEPT !.x = @ + 1])

\* a step that began with no active piece and left a hold timer running
C27_NoPieceWitness ==
  /\ ~ev.piece /\ ev.kind # "create"
  /\ DirOf(ev) = 0
  /\ DasTimers(state) # <<0, 0, 0, 0>>

\* the columns piece p can move in direction d on board s before a move is
\* blocked
FreeShift(s, p, d) ==
  LET stop == {k \in 0..s.boardW : collides(s, [p EXCEPT !.x = @ + d * (k + 1)])}
  IN CHOOSE k \in stop : \A j \in stop : k <= j

\* C28: with arrMs = 0 a step does what the same step does with arrMs = 1;
\* once the hold timer has reached dasMs, a step of a press adds elapsedMs
\* to the repeat accumulator and moves the piece one cell per whole
\* millisecond in it, up to the first blocked move, and the milliseconds
\* not spent stay in the accumulator.
C28_InstantRepeat ==
  [][/\ \A in \in ArrInputs, dtMs \in ArrDt :
           step(state, in, dtMs, ArrParams) = step(state, in, dtMs, ArrParamsOne)
     /\ (/\ state.active # null /\ DirOf(ev') # 0
         /\ TimersOf(state, DirOf(ev'))[1] > 0
         /\ TimersOf(state, DirOf(ev'))[1] + ev'.dtMs >= DEFAULT_PARAMS.dasMs) =>
          LET d == DirOf(ev')
              arr == TimersOf(state, d)[2] + ev'.dtMs
              free == FreeShift(state, state.active, d)
              moves == IF arr <= free THEN arr ELSE free
          IN /\ ev'.shift = d * moves
             /\ TimersOf(state', d)[2] = arr - moves]_vars

\* a step of 125 ms that moved the piece 125 columns and was not blocked
C28_Witness ==
  /\ ev.shift = -125
  /\ ev.dtMs = 125
  /\ TimersOf(state, -1)[1] >= DEFAULT_PARAMS.dasMs
  /\ TimersOf(state, -1)[2] = 0
  /\ state.active.x > 0

\* a step that was blocked at the wall after 3 moves, with 122 ms left
C28_BlockedWitness ==
  /\ ev.shift = -3
  /\ state.active # null /\ state.active.x = 0
  /\ TimersOf(state, -1)[2] = 122

\* the set of the cells of a footprint
CellSet(cells) == {cells[i] : i \in 1..Len(cells)}

\* C29: for every piece type and every step count r, negative ones included,
\* shapeCells(type, r) is shapeCells(type, r mod 4): 4 distinct cells with
\* least x = 0 and least y = 0; turning a footprint by one step and
\* normalizing it gives the footprint of the next rotation index, and four
\* such turns give the footprint back (for r mod 4 = 0 the cells of SHAPES).
C29_ShapeTable ==
  call.fn = "shapeCells" =>
     LET cells == call.cells
         r == call.rot % 4
     IN /\ cells = shapeCells(call.type, r)
        /\ cells = CellTable[call.type][r]
        /\ Len(cells) = 4
        /\ Cardinality(CellSet(cells)) = 4
        /\ \A c \in CellSet(cells) : c[1] >= 0 /\ c[2] >= 0
        /\ \E c \in CellSet(cells) : c[1] = 0
        /\ \E c \in CellSet(cells) : c[2] = 0
        /\ \A k \in 1..4 : call.turns[k] = CellTable[call.type][(r + k) % 4]
        /\ call.turns[4] = cells
        /\ r = 0 => (cells = SHAPES[call.type] /\ call.turns[4] = SHAPES[call.type])

\* the T piece asked for with step count -1: the footprint of rotation 3,
\* which is not that of rotation 0 or 1
C29_Witness ==
  /\ call.fn = "shapeCells"
  /\ call.type = "T" /\ call.rot = -1
  /\ call.cells = shapeCells("T", 3)
  /\ CellSet(call.cells) # CellSet(shapeCells("T", 0))
  /\ CellSet(call.cells) # CellSet(shapeCells("T", 1))
  /\ call.turns[1] = shapeCells("T", 0)

\* C30: ensureNext xors state.seed with 0x9e3779b9 at every refill, so
\* state.seed is the seed given or that seed xor 0x9e3779b9, by turns; the
\* bag appended at refill n + 2 is the bag appended at refill n; every bag
\* has 7 pieces, so the types spawned repeat with period 14.
C30_BagPeriod ==
  call.fn = "ensureNext" =>
     LET n == Len(call.bags)
     IN /\ state.seed \in {call.seed0, XorW(call.seed0, Golden)}
        /\ state.seed = IF n % 2 = 1 THEN XorW(call.seed0, Golden) ELSE call.seed0
        /\ call.bags[n] = generateBag(RNGInit(state.seed))
        /\ \A k \in 1..(n - 2) : call.bags[k + 2] = call.bags[k]
        /\ \A k \in 1..n : Len(call.bags[k]) = 7
        /\ \A k \in 1..(Len(call.spawned) - 14) :
              call.spawned[k + 14] = call.spawned[k]

\* C30 without the length of the bags and the period of the spawned types.
C30_BagsAlternate ==
  call.fn = "ensureNext" =>
     LET n == Len(call.bags)
     IN /\ state.seed = IF n % 2 = 1 THEN XorW(call.seed0, Golden) ELSE call.seed0
        /\ call.bags[n] = generateBag(RNGInit(state.seed))
        /\ \A k \in 1..(n - 2) : call.bags[k + 2] = call.bags[k]

\* four refills and 17 spawns, the last three types being the first three
C30_PeriodWitness ==
  /\ call.fn = "ensureNext"
  /\ Len(call.bags) = 4
  /\ Len(call.spawned) = 17
  /\ call.bags[1] # call.bags[2]
  /\ SubSeq(call.spawned, 15, 17) = SubSeq(call.spawned, 1, 3)

\* the entries taken from the queue are, seven by seven, one of each type
BagGroups(taken) ==
  \A g \in 0..((Len(taken) \div 7) - 1) :
     \A t \in Types : Cardinality({i \in 1..7 : taken[7 * g + i] = t}) = 1

\* no type is taken more than twice in a row, and at most 12 other pieces
\* lie between two consecutive occurrences of a type
RepeatDistance(taken) ==
  /\ \A i \in 1..(Len(taken) - 2) :
        ~(taken[i] = taken[i + 1] /\ taken[i + 1] = taken[i + 2])
  /\ \A i \in 1..Len(taken) : \A j \in (i + 1)..Len(taken) :
        (/\ taken[i] = taken[j]
         /\ \A k \in (i + 1)..(j - 1) : taken[k] # taken[i]) => j - i - 1 <= 12

\* C31: the pieces taken from the queue since createGame, by spawns and by
\* respawns, contain each of the 7 piece types exactly once in every
\* consecutive group of 7; so no type is taken more than twice in a row and
\* at most 12 other pieces separate two consecutive occurrences of a type.
C31_BoundedRepeat ==
  call.fn \in {"ensureNext", "TypeError"} =>
     /\ BagGroups(call.spawned)
     /\ \A i \in 1..Len(call.spawned) : call.spawned[i] \in Types
     /\ RepeatDistance(call.spawned)

\* C31 for the games whose bags are all permutations of the 7 types.
C31_BoundedRepeatOfSoundBags ==
  (/\ call.fn \in {"ensureNext", "TypeError"}
   /\ \A k \in 1..Len(call.bags) : BagGroups(call.bags[k])
                                      /\ Len(call.bags[k]) = 7)
    => /\ BagGroups(call.spawned)
       /\ \A i \in 1..Len(call.spawned) : call.spawned[i] \in Types
       /\ RepeatDistance(call.spawned)

\* two whole bags taken, in different orders
C31_Witness ==
  /\ call.fn = "ensureNext"
  /\ Len(call.spawned) >= 14
  /\ BagGroups(call.spawned)
  /\ SubSeq(call.spawned, 1, 7) # SubSeq(call.spawned, 8, 14)

\* spawnNext has thrown on the undefined entry it took from the queue
C31_ThrownWitness ==
  /\ call.fn = "TypeError"
  /\ call.spawned[Len(call.spawned)] = "undefined"
  /\ state.active # null

\* C32: the number of occupied cells of the board is 4 times the number of
\* pieces locked so far less boardW times the lines cleared.
C32_CellConservation ==
  call.fn = "lockAndClear" =>
     Cardinality(OccupiedCells(state)) = 4 * call.locks - state.boardW * state.lines

\* C32 step by step: a lock adds 4 cells that were empty, a cleared row
\* removes boardW occupied cells, and nothing else changes the count.
C32_LockAddsFour ==
  [][ Cardinality(OccupiedCells(state')) =
        Cardinality(OccupiedCells(state))
          + (IF ev'.lockedPiece # null THEN 4 ELSE 0)
          - state.boardW * (state'.lines - state.lines) ]_vars

\* three pieces or more were locked, the last by the lock delay, rows were cleared,
\* and cells remain on the board
C32_Witness ==
  /\ call.fn = "lockAndClear"
  /\ call.locks >= 3
  /\ state.lines >= 1
  /\ ev.kind = "gravityLock"
  /\ OccupiedCells(state) # {}

\* two rows cleared by one lock
C32_TwoRowsWitness ==
  /\ call.fn = "lockAndClear"
  /\ ev.cleared >= 2
  /\ OccupiedCells(state) # {}

\* C33: after createGame and after every step no row of the board has every
\* column occupied, and a lock clears at most 4 rows.
C33_NoFullRow ==
  /\ \A y \in 0..(state.boardH - 1) : ~RowFull(state, y)
  /\ ev.cleared \in 0..4

\* a lock has cleared 4 rows at once and left the board empty
C33_Witness ==
  /\ ev.kind = "hardDrop"
  /\ ev.cleared = 4
  /\ ev.lockedPiece.type = "I"
  /\ state.lines = 4
  /\ BoardEmpty(state)

\* a lock has cleared rows and left cells on the board
C33_PartWitness ==
  /\ ev.cleared >= 1
  /\ OccupiedCells(state) # {}

\* C34: at the end of every step, if a piece is active and could move down
\* one cell, fallAccum is below 1; a piece spawned in the step, after a hard
\* drop, a lock by the lock delay or a respawn, inherits no whole cell of
\* fall.
C34_NoCarriedGravity ==
  (/\ ev.kind # "create"
   /\ state.active # null
   /\ ~grounded(state)) => state.fallAccum < FallUnit

\* C34 for the steps that end in the gravity loop or in a lock by the lock
\* delay.
C34_AfterGravityLoop ==
  (/\ ev.kind \in {"plain", "gravityLock"}
   /\ state.active # null
   /\ ~grounded(state)) => state.fallAccum < FallUnit

\* a piece spawned after a lock by the lock delay, free, with fallAccum reset
C34_LockWitness ==
  /\ ev.kind = "gravityLock"
  /\ ev.accum >= FallUnit
  /\ state.active # null
  /\ ~grounded(state)
  /\ state.fallAccum = 0

\* a piece spawned after a hard drop, free, with whole cells of fall pending
C34_CarriedWitness ==
  /\ ev.kind = "hardDrop"
  /\ state.active # null
  /\ ~grounded(state)
  /\ state.fallAccum >= FallUnit

\* a piece spawned by a respawn, free, with whole cells of fall pending
C34_RespawnWitness ==
  /\ ev.kind = "respawn"
  /\ state.active # null
  /\ ~grounded(state)
  /\ state.fallAccum >= FallUnit

\* the absolute value of the integer n
Abs(n) == IF n < 0 THEN -n ELSE n

\* C35: in a single step the auto-repeat changes the column of the active
\* piece by at most floor(elapsedMs / max(1, arrMs)) + 1 cells: repeat time
\* accumulated while the piece was blocked is not replayed as extra moves
\* once the piece is free.
C35_NoHorizontalBurst ==
  ev.kind # "create" =>
     Abs(ev.shift) <= (ev.dtMs \div stepEvery(DEFAULT_PARAMS)) + 1

\* C35 for the steps that begin with less than one repeat interval in the
\* accumulator of the direction held.
C35_NoBurstFromEmptyAccumulator ==
  [][ (/\ state.arrLeftMs < stepEvery(DEFAULT_PARAMS)
       /\ state.arrRightMs < stepEvery(DEFAULT_PARAMS))
        => Abs(ev'.shift) <= (ev'.dtMs \div stepEvery(DEFAULT_PARAMS)) + 1 ]_vars

\* a step of 250 ms moved the piece the 8 columns of its repeat time and one
\* more, with nothing accumulated against a wall
C35_Witness ==
  /\ ev.dtMs = 250
  /\ Abs(ev.shift) = 9
  /\ state.active # null
  /\ state.active.x > 0

\* a step moved the piece more columns than its elapsed time pays for
C35_BurstWitness ==
  /\ ev.kind = "plain"
  /\ ev.left
  /\ Abs(ev.shift) > (ev.dtMs \div stepEvery(DEFAULT_PARAMS)) + 1

\* C36: step with hold set returns the state it returns with hold unset; in
\* every reachable state the held piece is null and canHold is true.
C36_HoldInert ==
  /\ call.fn = "step" => state = call.unheld
  /\ state.hold = "none"
  /\ state.canHold = TRUE

\* a step with hold set that locked a piece and spawned the next
C36_Witness ==
  /\ call.fn = "step"
  /\ call.inputs.hold
  /\ ev.kind = "hardDrop"
  /\ ev.spawn = "ok"
  /\ state.active # null

\* a step with hold set and no other intent, with a piece active
C36_HoldOnlyWitness ==
  /\ call.fn = "step"
  /\ call.inputs = [NoInputs EXCEPT !.hold = TRUE]
  /\ state.tick = 2
  /\ state.active # null

\* C36 for the games played without the hold intent: nothing is ever held.
C36_NothingHeld == state.hold = "none" /\ state.canHold = TRUE

\* C37: in every call of step the body of the hard-drop loop is entered at
\* most boardH times, that of the gravity loop at most floor(fallAccum) + 1
\* times and that of a repeat loop at most
\* floor(accumulator / max(1, arrMs)) + 1 times, also when arrMs = 0.
C37_LoopsBounded ==
  call.fn = "step" =>
     /\ call.drop <= state.boardH
     /\ call.fall <= (call.fallAccum \div FallUnit) + 1
     /\ call.repeat <= (call.repeatAccum \div MaxOf({1, call.arrMs})) + 1

\* played with arrMs = 0, a repeat loop has moved the piece to the wall and
\* stopped there, and the gravity loop has run
C37_Witness ==
  /\ call.fn = "step"
  /\ call.arrMs = 0
  /\ call.repeat >= 5
  /\ call.repeat = Abs(ev.shift) + 1
  /\ call.fall >= 1

\* a hard-drop loop of 5 cells or more
C37_DropWitness ==
  /\ call.fn = "step"
  /\ call.drop >= 5

\* a gravity loop that moved the piece down and was left on the failed move
C37_GroundedWitness ==
  /\ call.fn = "step"
  /\ call.fall >= 3
  /\ call.fall = ev.fell + 1

\* C38: when step is called again and again with elapsed time and without
\* respawn, the active piece is eventually locked or the game ends, whatever
\* the inputs, rotations in every step included.
C38_PieceEventuallyLocks ==
  []<>(ev.lockedPiece # null \/ state.gameOver)

\* C38 for the games in which no rotation is asked for.
C38_UnturnedPieceLocks ==
  []<>(ev.lockedPiece # null \/ state.gameOver \/ ev.rotated)

\* a turned piece has fallen one row and rests again, which resets the lock
\* timer
C38_ResetWitness ==
  /\ ev.rotated
  /\ ev.fell = 1
  /\ state.active # null
  /\ state.lockTimerMs = 0
  /\ grounded(state)

\* C39: a game left alone ends: with every intent false and a fixed elapsed
\* time greater than 0, every spawned piece is eventually locked and gameOver
\* eventually becomes true.
C39_IdleGameEnds ==
  /\ <>state.gameOver
  /\ [](state.active # null => <>(ev.lockedPiece # null \/ state.gameOver))

\* C39 for the runs in which no call of step throws.
C39_IdleGameEndsOrThrows ==
  /\ <>(state.gameOver \/ ev.kind = "throw")
  /\ [](state.active # null => <>(ev.lockedPiece # null \/ state.gameOver))

\* between calls a piece is active or the game is over
C39_PieceOrOver ==
  state.active # null \/ state.gameOver

\* a game left alone has ended with the spawn position taken
C39_Witness ==
  /\ state.gameOver
  /\ ev.lockedPiece # null
  /\ ev.spawn = "collide"

\* step has thrown: no piece is active and the game is not over
C39_ThrownWitness ==
  /\ ev.kind = "throw"
  /\ state.active = null
  /\ ~state.gameOver

\* C40: tryRotate leaves the piece at the rotation, column + dx and row + dy
\* that tryRotateWithKicks returns for the test "the piece with that rotation,
\* moved by (dx, dy), does not collide", and leaves the piece unchanged
\* exactly when the resolver returns ok = false.
C40_RotationAgrees ==
  call.fn = "tryRotate" =>
    /\ call.resolved.ok =>
          state.active = [call.piece EXCEPT !.rot = call.resolved.rot,
                                           !.x = @ + call.resolved.dx,
                                           !.y = @ + call.resolved.dy]
    /\ (state.active = call.piece) <=> ~call.resolved.ok

\* a piece on the board that could not turn in place nor beside and was
\* lifted a row, as the resolver says
C40_Witness ==
  /\ call.fn = "tryRotate"
  /\ call.resolved = [ok |-> TRUE, rot |-> Mod4(call.piece.rot + call.dir),
                      dx |-> 0, dy |-> -1]
  /\ state.active.y = call.piece.y - 1
  /\ state.active.rot # call.piece.rot

\* a piece on the board that no kick could turn
C40_StuckWitness ==
  /\ call.fn = "tryRotate"
  /\ ~call.resolved.ok
  /\ state.active = call.piece
  /\ ~collides(state, call.piece)

====
